---- MODULE Spec2Model ----
(***************************************************************************)
(* A model of the ray tracer's core: the AABB arithmetic, the hittable     *)
(* list and the BVH built over it, the recursive ray_color integrator and  *)
(* the parallel row renderer of Camera::render.                            *)
(*                                                                         *)
(* Numbers.  The program computes in f64.  The model computes in integers  *)
(* that count lengths and ray parameters in units of 0.00005 (half of the  *)
(* padding delta 0.0001), together with the three IEEE values the code     *)
(* relies on: +infinity, -infinity and NaN.  Every arithmetic result is    *)
(* rounded to SigBits significant bits, to nearest with ties to even, as   *)
(* binary floating point does; for the small scene coordinates used by the *)
(* BVH part every intermediate value is below 2^SigBits and the arithmetic *)
(* is exact, exactly as f64 is exact on small integers.                    *)
(***************************************************************************)
EXTENDS Integers, Sequences, FiniteSets, TLC

VARIABLES
    \* the AABB constructors
    boxes, made, axisOut, axisBox,
    \* the scene: HittableList, the BVH built from it, the last hit query
    objects, bbox, bvh, ray, ray_t, hitBVH, hitList,
    \* the camera's configuration
    max_depth, samples_per_pixel, background,
    \* one pixel of Camera::render: the sample loop and the ray_color calls
    pxPc, sample, color, pixel, rcPc, rcDepth, rcStack, rcValue, rcHits, rcMats, rcLog,
    \* Camera::render: the byte buffer, the row tasks, the progress counter,
    \* the main thread, and what was written where (history)
    draws, buffer, rowPc, rowCol, rowPrev, counter, printed,
    renderPc, retVal, image, written, saveAttempted, saveFailed,
    \* Camera::with_initialized: the configured fields and the camera built
    config, cam, camPc,
    \* one hit query on a wrapper: the object, the ray, the interval, the
    \* random draw and the record returned
    wKind, wObj, wRay, wIv, wLn, wRec

aabbVars == <<boxes, made, axisOut, axisBox>>

sceneVars == <<objects, bbox, bvh, ray, ray_t, hitBVH, hitList>>

cameraVars == <<max_depth, samples_per_pixel, background>>

pixelVars == <<pxPc, sample, color, pixel, rcPc, rcDepth, rcStack, rcValue, rcHits, rcMats, rcLog>>

renderVars ==
    <<draws, buffer, rowPc, rowCol, rowPrev, counter, printed,
      renderPc, retVal, image, written, saveAttempted, saveFailed>>

setupVars == <<config, cam, camPc>>

wrapVars == <<wKind, wObj, wRay, wIv, wLn, wRec>>

vars ==
    <<boxes, made, axisOut, axisBox,
      objects, bbox, bvh, ray, ray_t, hitBVH, hitList,
      max_depth, samples_per_pixel, background,
      pxPc, sample, color, pixel, rcPc, rcDepth, rcStack, rcValue, rcHits, rcMats, rcLog,
      draws, buffer, rowPc, rowCol, rowPrev, counter, printed,
      renderPc, retVal, image, written, saveAttempted, saveFailed,
      config, cam, camPc,
      wKind, wObj, wRay, wIv, wLn, wRec>>

(***************************************************************************)
(* f64 values                                                              *)
(***************************************************************************)
\* Significant bits kept by the rounding (53 in f64).
SigBits == 8

\* f64::INFINITY, and the NaN that 0 * infinity and infinity - infinity give.
INFINITY == 1000000
NEG_INFINITY == -INFINITY
NaN == INFINITY + INFINITY

IsNaN(x) == x = NaN
IsInf(x) == x = INFINITY \/ x = NEG_INFINITY
IsFinite(x) == ~IsNaN(x) /\ ~IsInf(x)

Abs(x) == IF x < 0 THEN -x ELSE x
Sgn(x) == IF x < 0 THEN -1 ELSE IF x > 0 THEN 1 ELSE 0

RECURSIVE Pow2(_)
Pow2(n) == IF n <= 0 THEN 1 ELSE 2 * Pow2(n - 1)

\* 2^SigBits: below it every integer is representable.
ExactBelow == Pow2(SigBits)

\* The spacing of representable values around magnitude m >= 2^SigBits.
RECURSIVE Quantum(_, _)
Quantum(m, q) == IF m < q * ExactBelow THEN q ELSE Quantum(m, 2 * q)

\* Round to nearest multiple of q, ties to the even multiple.
RoundTo(x, q) ==
    LET m == x \div q
        r == x % q
    IN  IF 2 * r < q THEN m * q
        ELSE IF 2 * r > q THEN (m + 1) * q
        ELSE IF m % 2 = 0 THEN m * q ELSE (m + 1) * q

FRound(x) ==
    IF Abs(x) < ExactBelow THEN x
    ELSE LET y == RoundTo(x, Quantum(Abs(x), 1))
         IN  IF y >= INFINITY THEN INFINITY
             ELSE IF y <= NEG_INFINITY THEN NEG_INFINITY ELSE y

FNeg(a) == IF IsNaN(a) THEN NaN ELSE -a

FAdd(a, b) ==
    IF IsNaN(a) \/ IsNaN(b) THEN NaN
    ELSE IF IsInf(a) /\ IsInf(b) THEN (IF a = b THEN a ELSE NaN)
    ELSE IF IsInf(a) THEN a
    ELSE IF IsInf(b) THEN b
    ELSE FRound(a + b)

FSub(a, b) == FAdd(a, FNeg(b))

FMul(a, b) ==
    IF IsNaN(a) \/ IsNaN(b) THEN NaN
    ELSE IF IsInf(a) \/ IsInf(b)
         THEN (IF a = 0 \/ b = 0 THEN NaN
               ELSE IF Sgn(a) * Sgn(b) > 0 THEN INFINITY ELSE NEG_INFINITY)
    ELSE FRound(a * b)

\* Comparisons: every ordered comparison with a NaN is false.
FLt(a, b) == ~IsNaN(a) /\ ~IsNaN(b) /\ a < b
FLe(a, b) == ~IsNaN(a) /\ ~IsNaN(b) /\ a <= b
FGt(a, b) == FLt(b, a)
FGe(a, b) == FLe(b, a)

\* f64::min and f64::max: a NaN operand is ignored.
FMin(a, b) == IF IsNaN(a) THEN b ELSE IF IsNaN(b) THEN a ELSE IF a < b THEN a ELSE b
FMax(a, b) == IF IsNaN(a) THEN b ELSE IF IsNaN(b) THEN a ELSE IF a > b THEN a ELSE b

(***************************************************************************)
(* Interval (interval.rs)                                                  *)
(***************************************************************************)
Axes == 0 .. 2

Interval(lo, hi) == [min |-> lo, max |-> hi]

INTERVAL_EMPTY == Interval(INFINITY, NEG_INFINITY)
INTERVAL_UNIVERSE == Interval(NEG_INFINITY, INFINITY)

\* The first interval alone.
from_intervals_first(a, b) == a

from_intervals(a, b) == Interval(FMin(a.min, b.min), FMax(a.max, b.max))

size(iv) == FSub(iv.max, iv.min)

contains(iv, x) == FLe(iv.min, x) /\ FLe(x, iv.max)

surrounds(iv, x) == FLt(iv.min, x) /\ FLt(x, iv.max)

\* delta / 2.0 is exact: delta is an even number of units.
clamp(iv, x) ==
    IF x < iv.min THEN iv.min
    ELSE IF x > iv.max THEN iv.max
    ELSE x

into_expand(iv, d) ==
    LET padding == d \div 2
    IN  Interval(FSub(iv.min, padding), FAdd(iv.max, padding))

(***************************************************************************)
(* AABB (aabb.rs): three intervals indexed by the axes 0, 1, 2             *)
(***************************************************************************)
\* The padding threshold 0.0001, in units of 0.00005.
delta == 2

pad_to_minimums(box) ==
    [i \in Axes |-> IF FLt(size(box[i]), delta) THEN into_expand(box[i], delta) ELSE box[i]]

from_points(a, b) ==
    pad_to_minimums(
        [i \in Axes |-> IF FLe(a[i], b[i]) THEN Interval(a[i], b[i]) ELSE Interval(b[i], a[i])])

\* The second box alone.
from_aabbs_second(box0, box1) == pad_to_minimums(box1)

from_aabbs(box0, box1) ==
    pad_to_minimums([i \in Axes |-> from_intervals(box0[i], box1[i])])

empty == [i \in Axes |-> INTERVAL_EMPTY]

universe == [i \in Axes |-> INTERVAL_UNIVERSE]

\* longest_axis with every comparison made non-strict (ties to the lower index).
longest_axis_ge(box) ==
    IF FGe(size(box[0]), size(box[1]))
    THEN (IF FGe(size(box[0]), size(box[2])) THEN 0 ELSE 2)
    ELSE (IF FGe(size(box[1]), size(box[2])) THEN 1 ELSE 2)

longest_axis(box) ==
    IF FGt(size(box[0]), size(box[1]))
    THEN (IF FGt(size(box[0]), size(box[2])) THEN 0 ELSE 2)
    ELSE (IF FGt(size(box[1]), size(box[2])) THEN 1 ELSE 2)

\* The corner (i, j, k) of a box, as rotate computes it.
Corner(box, i, j, k) ==
    [c \in Axes |->
        LET s == IF c = 0 THEN i ELSE IF c = 1 THEN j ELSE k
        IN  FAdd(FMul(s, box[c].max), FMul(1 - s, box[c].min))]

\* One corner turned about AXIS; sc = <<sin_theta, cos_theta>>.
Tester(AXIS, sc, p) ==
    LET sin_theta == sc[1]
        cos_theta == sc[2]
        x == p[0]
        y == p[1]
        z == p[2]
    IN  IF AXIS = 0
        THEN [c \in Axes |->
                IF c = 0 THEN x
                ELSE IF c = 1 THEN FSub(FMul(cos_theta, y), FMul(sin_theta, z))
                ELSE FAdd(FMul(sin_theta, y), FMul(cos_theta, z))]
        ELSE IF AXIS = 1
        THEN [c \in Axes |->
                IF c = 0 THEN FAdd(FMul(cos_theta, x), FMul(sin_theta, z))
                ELSE IF c = 1 THEN y
                ELSE FAdd(FMul(FNeg(sin_theta), x), FMul(cos_theta, z))]
        ELSE [c \in Axes |->
                IF c = 0 THEN FSub(FMul(cos_theta, x), FMul(sin_theta, y))
                ELSE IF c = 1 THEN FAdd(FMul(sin_theta, x), FMul(cos_theta, y))
                ELSE z]

RECURSIVE FoldMin(_, _, _)
FoldMin(pts, c, acc) ==
    IF pts = <<>> THEN acc ELSE FoldMin(Tail(pts), c, FMin(acc, Head(pts)[c]))

RECURSIVE FoldMax(_, _, _)
FoldMax(pts, c, acc) ==
    IF pts = <<>> THEN acc ELSE FoldMax(Tail(pts), c, FMax(acc, Head(pts)[c]))

rotate(box, AXIS, sc) ==
    LET testers == [n \in 1 .. 8 |->
                      Tester(AXIS, sc,
                             Corner(box, (n - 1) \div 4, ((n - 1) \div 2) % 2, (n - 1) % 2))]
        lo == [c \in Axes |-> FoldMin(testers, c, INFINITY)]
        hi == [c \in Axes |-> FoldMax(testers, c, NEG_INFINITY)]
    IN  from_points(lo, hi)

(***************************************************************************)
(* Vec3 and Ray (vec3.rs, ray.rs)                                          *)
(***************************************************************************)
Pt(x, y, z) == [c \in Axes |-> IF c = 0 THEN x ELSE IF c = 1 THEN y ELSE z]

VAdd(a, b) == [c \in Axes |-> FAdd(a[c], b[c])]
VSub(a, b) == [c \in Axes |-> FSub(a[c], b[c])]
VNeg(a) == [c \in Axes |-> FNeg(a[c])]
VScale(a, k) == [c \in Axes |-> FMul(a[c], k)]

dot(a, b) == FAdd(FAdd(FMul(a[0], b[0]), FMul(a[1], b[1])), FMul(a[2], b[2]))

cross(a, b) ==
    Pt(FSub(FMul(a[1], b[2]), FMul(a[2], b[1])),
       FSub(FMul(a[2], b[0]), FMul(a[0], b[2])),
       FSub(FMul(a[0], b[1]), FMul(a[1], b[0])))

\* sqrt, on the perfect squares the scenes of the model produce.
Sqrt(n) == IF IsNaN(n) THEN NaN ELSE CHOOSE r \in 0 .. n : r * r = n

\* f64 division: 0 / 0 is NaN, x / 0 is an infinity; otherwise on the exact
\* quotients the scenes of the model produce.
FDiv(a, b) ==
    IF IsNaN(a) \/ IsNaN(b) THEN NaN
    ELSE IF b = 0 THEN (IF a = 0 THEN NaN ELSE Sgn(a) * INFINITY)
    ELSE IF IsInf(a) THEN (IF IsInf(b) THEN NaN ELSE Sgn(a) * Sgn(b) * INFINITY)
    ELSE IF IsInf(b) THEN 0
    ELSE CHOOSE k \in -Abs(a) .. Abs(a) : k * b = a

\* 1.0 / d for a direction component d in {-1, 0, 1}: 1.0 / 0.0 is +infinity.
Recip(d) == IF d = 0 THEN INFINITY ELSE FDiv(1, d)

length(a) == Sqrt(dot(a, a))

into_unit_vector(a) == LET l == length(a) IN [c \in Axes |-> FDiv(a[c], l)]

Ray(origin, direction, time) == [orig |-> origin, dir |-> direction, tm |-> time]

at(r, t) == VAdd(r.orig, VScale(r.dir, t))

(***************************************************************************)
(* HitRecord (hittable.rs)                                                 *)
(***************************************************************************)
None == [kind |-> "none"]

IsSome(rec) == rec.kind = "hit"

HitRecord(r, t, p, outward_normal, mat, uv) ==
    LET front_face == FLt(dot(r.dir, outward_normal), 0)
    IN  [kind |-> "hit",
         t |-> t,
         p |-> p,
         front_face |-> front_face,
         normal |-> IF front_face THEN outward_normal ELSE VNeg(outward_normal),
         mat |-> mat,
         u |-> uv[1],
         v |-> uv[2]]

(***************************************************************************)
(* Quad (quad.rs).  The plane coordinates alpha and beta are kept as exact *)
(* fractions <<numerator, denominator>>: w = n / (n . n) is the pair       *)
(* (n, n . n).                                                             *)
(***************************************************************************)
I01 == Interval(0, 1)

\* I01.contains(a) for a fraction a = <<num, den>>, den > 0.
I01Contains(a) == FLe(FMul(I01.min, a[2]), a[1]) /\ FLe(a[1], FMul(I01.max, a[2]))

\* Shape2D::Parallelogram
Parallelogram(a, b) == IF I01Contains(a) /\ I01Contains(b) THEN <<a, b>> ELSE <<>>

\* The variants of Shape2D; the inner radius of an annulus is a fraction.
ParallelogramShape == [name |-> "Parallelogram"]
TriangleShape == [name |-> "Triangle"]
CircleShape == [name |-> "Circle"]
EllipseShape == [name |-> "Ellipse"]
AnnulusShape(inner) == [name |-> "Annulus", inner |-> inner]

\* Shape2D::Triangle
Triangle(a, b) ==
    IF FGt(a[1], 0) /\ FGt(b[1], 0) /\ FLt(FAdd(a[1], b[1]), a[2]) THEN <<a, b>> ELSE <<>>

\* a / 2.0 + 0.5, as a fraction
HalfPlusHalf(a) == <<FAdd(a[1], a[2]), FMul(2, a[2])>>

\* a * a + b * b for fractions of one denominator, over its square
SumOfSquares(a, b) == FAdd(FMul(a[1], a[1]), FMul(b[1], b[1]))

\* Shape2D::Circle | Shape2D::Ellipse
Circle(a, b) ==
    IF FLt(SumOfSquares(a, b), FMul(a[2], a[2]))
    THEN <<HalfPlusHalf(a), HalfPlusHalf(b)>> ELSE <<>>

\* Shape2D::Annulus { inner }: inner < sqrt(a * a + b * b) < 1.0
Annulus(inner, a, b) ==
    IF /\ FLt(FMul(FMul(inner[1], inner[1]), FMul(a[2], a[2])),
              FMul(FMul(inner[2], inner[2]), SumOfSquares(a, b)))
       /\ FLt(SumOfSquares(a, b), FMul(a[2], a[2]))
    THEN <<HalfPlusHalf(a), HalfPlusHalf(b)>> ELSE <<>>

\* impl From<Shape2D> for Shape2DFn: the containment test of a shape
contains_fn(shape, a, b) ==
    IF shape.name = "Parallelogram" THEN Parallelogram(a, b)
    ELSE IF shape.name = "Triangle" THEN Triangle(a, b)
    ELSE IF shape.name \in {"Circle", "Ellipse"} THEN Circle(a, b)
    ELSE Annulus(shape.inner, a, b)

\* The bounding box with_shape gives a shape
ShapeBox(q, u, v, shape) ==
    LET quv == VAdd(VAdd(q, u), v)
        qu == VAdd(q, u)
        qv == VAdd(q, v)
    IN  IF shape.name = "Parallelogram"
        THEN from_aabbs(from_points(q, quv), from_points(qu, qv))
        ELSE IF shape.name = "Triangle"
        THEN from_aabbs(from_points(q, qv), from_points(qu, qv))
        ELSE from_points(quv, VSub(VSub(q, u), v))

with_shape(q, u, v, mat, shape) ==
    LET n == cross(u, v)
        normal == into_unit_vector(cross(u, v))
    IN  [kind |-> "quad",
         q |-> q, u |-> u, v |-> v, mat |-> mat,
         w |-> [n |-> n, nn |-> dot(n, n)],
         bbox |-> ShapeBox(q, u, v, shape),
         normal |-> normal,
         d |-> dot(normal, q),
         shape |-> shape]

\* Quad::new
QuadNew(q, u, v, mat) == with_shape(q, u, v, mat, ParallelogramShape)

QuadHit(quad, r, rt) ==
    LET denom == dot(quad.normal, r.dir)
    IN  \* denom.abs() < 1e-8; denom is a whole number here, so this is denom = 0
        IF FLt(Abs(denom), 1) THEN None
        ELSE
        LET t == FDiv(FSub(quad.d, dot(quad.normal, r.orig)), denom)
        IN  IF ~contains(rt, t) THEN None
            ELSE
            LET intersection == at(r, t)
                planar_hitpt_vector == VSub(intersection, quad.q)
                alpha == <<dot(quad.w.n, cross(planar_hitpt_vector, quad.v)), quad.w.nn>>
                beta == <<dot(quad.w.n, cross(quad.u, planar_hitpt_vector)), quad.w.nn>>
                uv == contains_fn(quad.shape, alpha, beta)
            IN  IF uv = <<>> THEN None
                ELSE HitRecord(r, t, intersection, quad.normal, quad.mat, uv)

(***************************************************************************)
(* AABB::hit (aabb.rs): the slab test, axis by axis with its early exit    *)
(***************************************************************************)
RECURSIVE AABBHitFrom(_, _, _, _)
AABBHitFrom(box, r, rt, axis) ==
    IF axis = 3 THEN TRUE
    ELSE
    LET ax == box[axis]
        adinv == Recip(r.dir[axis])
        t0 == FMul(FSub(ax.min, r.orig[axis]), adinv)
        t1 == FMul(FSub(ax.max, r.orig[axis]), adinv)
        lo == IF FLt(t0, t1)
              THEN (IF FGt(t0, rt.min) THEN t0 ELSE rt.min)
              ELSE (IF FGt(t1, rt.min) THEN t1 ELSE rt.min)
        hi == IF FLt(t0, t1)
              THEN (IF FLt(t1, rt.max) THEN t1 ELSE rt.max)
              ELSE (IF FLt(t0, rt.max) THEN t0 ELSE rt.max)
    IN  IF FLe(hi, lo) THEN FALSE
        ELSE AABBHitFrom(box, r, Interval(lo, hi), axis + 1)

\* The test made on the last axis alone.
AABBHit_z(box, r, rt) == AABBHitFrom(box, r, rt, 2)

AABBHit(box, r, rt) == AABBHitFrom(box, r, rt, 0)

(***************************************************************************)
(* Hittable::hit, dispatched on the kind of object (hittable.rs, bvh.rs,   *)
(* hittable_list.rs), and the wrappers Translate and RotateY               *)
(***************************************************************************)
bounding_box(obj) == obj.bbox

\* hit_right.or(hit_left)
OrElse(a, b) == IF IsSome(a) THEN a ELSE b

RECURSIVE Hit(_, _, _)
\* The right child queried over the interval as given.
BVHNodeHit_wide(node, r, rt) ==
    IF ~AABBHit(node.bbox, r, rt) THEN None
    ELSE OrElse(Hit(node.right, r, rt), Hit(node.left, r, rt))

BVHNodeHit(node, r, rt) ==
    IF ~AABBHit(node.bbox, r, rt) THEN None
    ELSE
    LET hit_left == Hit(node.left, r, rt)
        rt2 == IF IsSome(hit_left) THEN Interval(rt.min, hit_left.t) ELSE rt
        hit_right == Hit(node.right, r, rt2)
    IN  OrElse(hit_right, hit_left)

RECURSIVE ListHitFrom(_, _, _, _, _)
ListHitFrom(objs, r, rt, closest_so_far, result_rec) ==
    IF objs = <<>> THEN result_rec
    ELSE
    \* rec is the one record object.hit returned
    CHOOSE out \in
        { IF IsSome(rec)
          THEN ListHitFrom(Tail(objs), r, rt, rec.t, rec)
          ELSE ListHitFrom(Tail(objs), r, rt, closest_so_far, result_rec) :
            rec \in { Hit(Head(objs), r, Interval(rt.min, closest_so_far)) } } : TRUE

HittableListHit(objs, r, rt) == ListHitFrom(objs, r, rt, rt.max, None)

\* &AABB + &Vec3f64: every axis interval displaced by the offset's component
AABBAdd(box, offset) ==
    [c \in Axes |-> Interval(FAdd(box[c].min, offset[c]), FAdd(box[c].max, offset[c]))]

\* Translate::new
TranslateNew(object, offset) ==
    [kind |-> "translate", object |-> object, offset |-> offset,
     bbox |-> AABBAdd(bounding_box(object), offset)]

\* The ray moved forwards by the offset instead of backwards.
OffsetRay_forwards(tr, r) == Ray(VAdd(r.orig, tr.offset), r.dir, r.tm)

\* Move the ray backwards by the offset
OffsetRay(tr, r) == Ray(VSub(r.orig, tr.offset), r.dir, r.tm)

\* Translate::hit
TranslateHit(tr, r, rt) ==
    CHOOSE out \in
        { IF ~IsSome(rec) THEN None
          ELSE [rec EXCEPT !.p = VAdd(rec.p, tr.offset)] :
            rec \in { Hit(tr.object, OffsetRay(tr, r), rt) } } : TRUE

\* RotateY::new; sc = <<sin_theta, cos_theta>>
RotateYNew(object, sc) ==
    LET box == bounding_box(object)
        testers == [n \in 1 .. 8 |->
                      Tester(1, sc,
                             Corner(box, (n - 1) \div 4, ((n - 1) \div 2) % 2, (n - 1) % 2))]
        lo == [c \in Axes |-> FoldMin(testers, c, INFINITY)]
        hi == [c \in Axes |-> FoldMax(testers, c, NEG_INFINITY)]
    IN  [kind |-> "rotate_y", object |-> object,
         sin_theta |-> sc[1], cos_theta |-> sc[2],
         bbox |-> from_points(lo, hi)]

\* RotateY::transform: world space to object space
transform(rot, v) ==
    Pt(FSub(FMul(rot.cos_theta, v[0]), FMul(rot.sin_theta, v[2])),
       v[1],
       FAdd(FMul(rot.sin_theta, v[0]), FMul(rot.cos_theta, v[2])))

\* RotateY::transform_back: object space to world space
transform_back(rot, v) ==
    Pt(FAdd(FMul(rot.cos_theta, v[0]), FMul(rot.sin_theta, v[2])),
       v[1],
       FAdd(FMul(FNeg(rot.sin_theta), v[0]), FMul(rot.cos_theta, v[2])))

\* The ray as RotateY::hit hands it to the wrapped object
RotatedRay(rot, r) == Ray(transform(rot, r.orig), transform(rot, r.dir), r.tm)

\* RotateY::hit
RotateYHit(rot, r, rt) ==
    CHOOSE out \in
        { IF ~IsSome(rec) THEN None
          ELSE [rec EXCEPT !.p = transform_back(rot, rec.p),
                           !.normal = transform_back(rot, rec.normal)] :
            rec \in { Hit(rot.object, RotatedRay(rot, r), rt) } } : TRUE

\* A surface met at ray parameter t with the outward normal given: the
\* record is built as Sphere::hit builds it.
SurfaceHit(obj, r, rt) ==
    IF ~surrounds(rt, obj.t) THEN None
    ELSE HitRecord(r, obj.t, at(r, obj.t), obj.outward_normal, obj.mat, <<0, 0>>)

\* Sphere::new; the centre does not move
SphereNew(center, radius, mat) ==
    LET rvec == Pt(FMax(radius, 0), FMax(radius, 0), FMax(radius, 0))
    IN  [kind |-> "sphere", center |-> center, radius |-> FMax(radius, 0), mat |-> mat,
         bbox |-> from_points(VSub(center, rvec), VAdd(center, rvec))]

\* The record Sphere::hit builds for a root.  The outward normal
\* (p - center) / radius is kept in units of 1 / radius; the texture
\* coordinates of get_sphere_uv are left out.
SphereRecord(sph, r, root) ==
    HitRecord(r, root, at(r, root), VSub(at(r, root), sph.center), sph.mat, <<0, 0>>)

\* The nearer root taken whatever the interval.
SphereHit_nearest(sph, r, rt) ==
    LET oc == VSub(sph.center, r.orig)
        a == dot(r.dir, r.dir)
        h == dot(r.dir, oc)
        c == FSub(dot(oc, oc), FMul(sph.radius, sph.radius))
        discriminant == FSub(FMul(h, h), FMul(a, c))
    IN  IF FLt(discriminant, 0) THEN None
        ELSE SphereRecord(sph, r, FDiv(FSub(h, Sqrt(discriminant)), a))

\* Sphere::hit
SphereHit(sph, r, rt) ==
    LET oc == VSub(sph.center, r.orig)
        a == dot(r.dir, r.dir)
        h == dot(r.dir, oc)
        c == FSub(dot(oc, oc), FMul(sph.radius, sph.radius))
        discriminant == FSub(FMul(h, h), FMul(a, c))
    IN  IF FLt(discriminant, 0) THEN None
        ELSE
        LET sqrtd == Sqrt(discriminant)
            root == FDiv(FSub(h, sqrtd), a)
            root2 == FDiv(FAdd(h, sqrtd), a)
        IN  IF surrounds(rt, root) THEN SphereRecord(sph, r, root)
            ELSE IF surrounds(rt, root2) THEN SphereRecord(sph, r, root2)
            ELSE None

Hit(obj, r, rt) ==
    IF obj.kind = "quad" THEN QuadHit(obj, r, rt)
    ELSE IF obj.kind = "sphere" THEN SphereHit(obj, r, rt)
    ELSE IF obj.kind = "surface" THEN SurfaceHit(obj, r, rt)
    ELSE IF obj.kind = "translate" THEN TranslateHit(obj, r, rt)
    ELSE IF obj.kind = "rotate_y" THEN RotateYHit(obj, r, rt)
    ELSE IF obj.kind = "list" THEN HittableListHit(obj.objects, r, rt)
    ELSE BVHNodeHit(obj, r, rt)

(***************************************************************************)
(* BVHNode::new (bvh.rs): the node built over a span, and the span as the  *)
(* in-place sorts leave it                                                 *)
(***************************************************************************)
\* The box of the first object of the span alone.
SpanBox_first(span, acc) ==
    IF span = <<>> THEN acc ELSE from_aabbs(acc, bounding_box(Head(span)))

RECURSIVE SpanBox(_, _)
SpanBox(span, acc) ==
    IF span = <<>> THEN acc
    ELSE SpanBox(Tail(span), from_aabbs(acc, bounding_box(Head(span))))

\* A HittableList used as an object: its bbox is folded by add from the
\* default (empty) box
ListOf(objs) == [kind |-> "list", objects |-> objs, bbox |-> SpanBox(objs, empty)]

\* The boxes compared by their upper ends.
box_compare_less_max(a, b, axis_index) ==
    FLt(bounding_box(a)[axis_index].max, bounding_box(b)[axis_index].max)

\* box_compare(a, b, axis_index) is Less
box_compare_less(a, b, axis_index) ==
    FLt(bounding_box(a)[axis_index].min, bounding_box(b)[axis_index].min)

\* slice::sort_by is a stable sort: x goes after every element not greater.
RECURSIVE InsertSorted(_, _, _)
InsertSorted(sorted, x, axis) ==
    IF sorted = <<>> THEN <<x>>
    ELSE IF box_compare_less(x, Head(sorted), axis) THEN <<x>> \o sorted
    ELSE <<Head(sorted)>> \o InsertSorted(Tail(sorted), x, axis)

RECURSIVE SortFrom(_, _, _)
SortFrom(span, axis, acc) ==
    IF span = <<>> THEN acc
    ELSE SortFrom(Tail(span), axis, InsertSorted(acc, Head(span), axis))

\* Every place of the span filled with the least object.
sort_by_first(span, axis) == [k \in 1 .. Len(span) |-> SortFrom(span, axis, <<>>)[1]]

sort_by(span, axis) == SortFrom(span, axis, <<>>)

\* Nested BVHNode::new calls the thread's stack has room for.
StackFrames == 6

\* The outcomes of a construction that does not return.
StackOverflow == [kind |-> "stack_overflow"]
Panicked == [kind |-> "panic"]

Returned(built) == built.node.kind = "bvh"

\* A split point one past the middle.
Mid_up(object_span) == object_span \div 2 + 1

\* A split that peels one object off the front.
Mid_one(object_span) == 1

\* let mid = object_span / 2
Mid(object_span) == object_span \div 2

\* BVHNode::new at a given nesting depth.  Every call takes a stack frame;
\* the recursion that finds no room aborts the process.  The arm `_` also
\* takes the empty span: it splits it into two empty spans and recurses on
\* the left one.  split_at_mut(mid) panics when mid > len.
RECURSIVE BVHNodeNewAt(_, _)
BVHNodeNewAt(span, depth) ==
    LET box == SpanBox(span, empty)
        axis == longest_axis(box)
        object_span == Len(span)
    IN  IF depth > StackFrames
        THEN [node |-> StackOverflow, span |-> span]
        ELSE IF object_span = 1
        THEN [node |-> [kind |-> "bvh", left |-> span[1], right |-> span[1], bbox |-> box],
              span |-> span]
        ELSE IF object_span = 2
        THEN [node |-> [kind |-> "bvh", left |-> span[1], right |-> span[2], bbox |-> box],
              span |-> span]
        ELSE
        LET sorted == sort_by(span, axis)
            mid == Mid(object_span)
        IN  IF mid > object_span
            THEN [node |-> Panicked, span |-> sorted]
            ELSE
            LET l == BVHNodeNewAt(SubSeq(sorted, 1, mid), depth + 1)
            IN  IF ~Returned(l)
                THEN [node |-> l.node, span |-> sorted]
                ELSE
                LET rr == BVHNodeNewAt(SubSeq(sorted, mid + 1, object_span), depth + 1)
                IN  IF ~Returned(rr)
                    THEN [node |-> rr.node, span |-> sorted]
                    ELSE [node |-> [kind |-> "bvh", left |-> l.node, right |-> rr.node,
                                    bbox |-> box],
                          span |-> l.span \o rr.span]

BVHNodeNew(span) == BVHNodeNewAt(span, 1)

(***************************************************************************)
(* The AABB constructors applied to drawn corner points.  Slots 1 and 2    *)
(* hold boxes built by from_points, slot 3 their union, slot 4 a rotation. *)
(***************************************************************************)
\* Corner points the constructors are applied to.  <<300, 300, 300>> lies
\* where the spacing of representable values exceeds the padding.
PointPool ==
    { Pt(0, 0, 0), Pt(4, 4, 4), Pt(4, 2, 4), Pt(2, 4, 4), Pt(6, 3, 1), Pt(300, 300, 300) }

\* <<sin, cos>> of the quarter turns.
Turns == { <<0, 1>>, <<1, 0>>, <<0, -1>>, <<-1, 0>> }

\* An offset a box is displaced by: at 256 the spacing of the representable
\* values grows to the padding.
Shifts == { Pt(0, 0, 256), Pt(1, 0, 0) }

Slots == 1 .. 4

\* Slots 5 and 6 hold the union of slots 1 and 2 taken in both orders, slot 7
\* the union of slot 1 with itself.
UnionSlots == 5 .. 7

InitAABB ==
    /\ boxes = [s \in Slots \cup UnionSlots |-> empty]
    /\ made = [s \in Slots \cup UnionSlots |-> "empty"]
    /\ axisOut = -1
    /\ axisBox = empty

DoFromPoints(s, a, b) ==
    /\ made[s] = "empty"
    /\ boxes' = [boxes EXCEPT ![s] = from_points(a, b)]
    /\ made' = [made EXCEPT ![s] = "from_points"]
    /\ UNCHANGED <<axisOut, axisBox, sceneVars, cameraVars, pixelVars, renderVars, setupVars, wrapVars>>

DoFromAabbs ==
    /\ made[3] = "empty"
    /\ boxes' = [boxes EXCEPT ![3] = from_aabbs(boxes[1], boxes[2])]
    /\ made' = [made EXCEPT ![3] = "from_aabbs"]
    /\ UNCHANGED <<axisOut, axisBox, sceneVars, cameraVars, pixelVars, renderVars, setupVars, wrapVars>>

\* &AABB + &Vec3f64 on a box built from points
DoAdd(s, offset) ==
    /\ made[s] = "from_points"
    /\ boxes' = [boxes EXCEPT ![s] = AABBAdd(boxes[s], offset)]
    /\ made' = [made EXCEPT ![s] = "add"]
    /\ UNCHANGED <<axisOut, axisBox, sceneVars, cameraVars, pixelVars, renderVars, setupVars, wrapVars>>

\* from_aabbs on the boxes of slots 1 and 2 in both orders, and on the box of
\* slot 1 with itself
DoFromAabbsBothWays ==
    /\ made[5] = "empty"
    /\ boxes' = [boxes EXCEPT ![5] = from_aabbs(boxes[1], boxes[2]),
                              ![6] = from_aabbs(boxes[2], boxes[1]),
                              ![7] = from_aabbs(boxes[1], boxes[1])]
    /\ made' = [made EXCEPT ![5] = "from_aabbs", ![6] = "from_aabbs", ![7] = "from_aabbs"]
    /\ UNCHANGED <<axisOut, axisBox, sceneVars, cameraVars, pixelVars, renderVars, setupVars, wrapVars>>

DoRotate(AXIS, sc) ==
    /\ made[1] # "empty"
    /\ made[4] = "empty"
    /\ boxes' = [boxes EXCEPT ![4] = rotate(boxes[1], AXIS, sc)]
    /\ made' = [made EXCEPT ![4] = "rotate"]
    /\ UNCHANGED <<axisOut, axisBox, sceneVars, cameraVars, pixelVars, renderVars, setupVars, wrapVars>>

DoLongestAxis(s) ==
    /\ made[s] # "empty"
    /\ axisOut = -1
    /\ axisOut' = longest_axis(boxes[s])
    /\ axisBox' = boxes[s]
    /\ UNCHANGED <<boxes, made, sceneVars, cameraVars, pixelVars, renderVars, setupVars, wrapVars>>

NextAABB ==
    \/ \E s \in 1 .. 2, a \in PointPool, b \in PointPool : DoFromPoints(s, a, b)
    \/ DoFromAabbs
    \/ \E AXIS \in Axes, sc \in Turns : DoRotate(AXIS, sc)
    \/ \E s \in Slots : DoLongestAxis(s)

\* Boxes are built from points, displaced, and united.
NextUnion ==
    \/ \E s \in 1 .. 2, a \in PointPool, b \in PointPool : DoFromPoints(s, a, b)
    \/ \E s \in 1 .. 2, offset \in Shifts : DoAdd(s, offset)
    \/ DoFromAabbsBothWays

(***************************************************************************)
(* The scene: objects are added to a HittableList, a BVH is built from the *)
(* list (BVHNode::from), and rays are cast at both                         *)
(***************************************************************************)
\* Most objects a scene holds.
MaxObjects == 3

\* Axis-aligned parallelograms, lengths in units of 0.00005.
QuadPool ==
    { QuadNew(Pt(0, 0, 0), Pt(4, 0, 0), Pt(0, 4, 0), "m1"),
      QuadNew(Pt(0, 0, 4), Pt(4, 0, 0), Pt(0, 4, 0), "m2"),
      QuadNew(Pt(2, 0, 0), Pt(0, 4, 0), Pt(0, 0, 4), "m3"),
      QuadNew(Pt(1, 1, 8), Pt(2, 0, 0), Pt(0, 2, 0), "m1"),
      QuadNew(Pt(6, 0, 0), Pt(0, 0, 2), Pt(0, 2, 0), "m2") }

Origins == { Pt(2, 2, -2), Pt(-1, 3, 1), Pt(0, 2, -2), Pt(1, 1, 2), Pt(7, 1, 9) }

Directions == { d \in [Axes -> {-1, 0, 1}] : d # Pt(0, 0, 0) }

RayIntervals == { Interval(0, INFINITY), Interval(1, INFINITY), Interval(0, 5) }

NoBVH == [kind |-> "none"]

InitScene ==
    /\ objects = <<>>
    /\ bbox = empty
    /\ bvh = NoBVH
    /\ ray = Ray(Pt(0, 0, 0), Pt(0, 0, 0), 0)
    /\ ray_t = INTERVAL_EMPTY
    /\ hitBVH = None
    /\ hitList = None

Queried == ray.dir # Pt(0, 0, 0)

\* HittableList::add
ListAdd(object) ==
    /\ bvh = NoBVH
    /\ Len(objects) < MaxObjects
    /\ \A k \in 1 .. Len(objects) : objects[k] # object
    /\ bbox' = from_aabbs(bbox, bounding_box(object))
    /\ objects' = Append(objects, object)
    /\ UNCHANGED <<bvh, ray, ray_t, hitBVH, hitList, aabbVars, cameraVars, pixelVars, renderVars, setupVars, wrapVars>>

\* BVHNode::from(&mut list)
BVHNodeFrom ==
    /\ bvh = NoBVH
    /\ LET built == BVHNodeNew(objects)
       IN  /\ bvh' = built.node
           /\ objects' = built.span
    /\ UNCHANGED <<bbox, ray, ray_t, hitBVH, hitList, aabbVars, cameraVars, pixelVars, renderVars, setupVars, wrapVars>>

\* One ray cast at the BVH root and at the list holding the same objects.
CastRay(r, rt) ==
    /\ bvh.kind = "bvh"
    /\ ~Queried
    /\ ray' = r
    /\ ray_t' = rt
    /\ hitBVH' = Hit(bvh, r, rt)
    /\ hitList' = HittableListHit(objects, r, rt)
    /\ UNCHANGED <<objects, bbox, bvh, aabbVars, cameraVars, pixelVars, renderVars, setupVars, wrapVars>>

NextScene ==
    \/ \E object \in QuadPool : ListAdd(object)
    \/ BVHNodeFrom
    \/ \E o \in Origins, d \in Directions, rt \in RayIntervals : CastRay(Ray(o, d, 0), rt)

\* Objects a tree is built over: quads, a flat quad displaced to where its
\* box comes out thinner than the padding, and quads near it.
BuildPool ==
    { QuadNew(Pt(0, 0, 0), Pt(4, 0, 0), Pt(0, 4, 0), "m1"),
      QuadNew(Pt(2, 0, 0), Pt(0, 4, 0), Pt(0, 0, 4), "m3"),
      QuadNew(Pt(6, 0, 0), Pt(0, 0, 2), Pt(0, 2, 0), "m2"),
      QuadNew(Pt(0, 0, 256), Pt(0, 4, 0), Pt(0, 0, 4), "m2"),
      TranslateNew(QuadNew(Pt(0, 0, 0), Pt(4, 0, 0), Pt(0, 4, 0), "m1"), Pt(0, 0, 256)),
      TranslateNew(QuadNew(Pt(2, 0, 0), Pt(0, 4, 0), Pt(0, 0, 4), "m3"), Pt(1, 0, 0)) }

\* Objects are added to the list and the tree is built; no ray is cast.
NextBuild ==
    \/ \E object \in BuildPool : ListAdd(object)
    \/ BVHNodeFrom

\* Longest span a tree is built over.
MaxSpan == 5

\* HittableList::add, for the lists the longer spans are taken from
SpanAdd(object) ==
    /\ bvh = NoBVH
    /\ Len(objects) < MaxSpan
    /\ \A k \in 1 .. Len(objects) : objects[k] # object
    /\ bbox' = from_aabbs(bbox, bounding_box(object))
    /\ objects' = Append(objects, object)
    /\ UNCHANGED <<bvh, ray, ray_t, hitBVH, hitList, aabbVars, cameraVars, pixelVars, renderVars, setupVars, wrapVars>>

\* Up to MaxSpan objects are added and the tree is built; no ray is cast.
NextSpan ==
    \/ \E object \in BuildPool : SpanAdd(object)
    \/ BVHNodeFrom

(***************************************************************************)
(* Properties of the BVH                                                   *)
(***************************************************************************)
\* The t of every object's own hit(ray, ray_t), by brute force.
LeafTs == { Hit(objects[k], ray, ray_t).t :
              k \in { j \in 1 .. Len(objects) : IsSome(Hit(objects[j], ray, ray_t)) } }

\* C1: if at least one object's own hit(r, I) returns a hit, the BVH root
\* returns a hit whose t is the minimum t over the objects' individual hits.
C1_BVHCompleteness ==
    (Queried /\ LeafTs # {}) =>
        /\ IsSome(hitBVH)
        /\ \A t \in LeafTs : FLe(hitBVH.t, t)
        /\ hitBVH.t \in LeafTs

\* C2: on the same ray and interval the BVH and the HittableList holding the
\* same objects either both return no hit or both return a hit with the same t.
C2_BVHListEquivalence ==
    Queried =>
        \/ ~IsSome(hitBVH) /\ ~IsSome(hitList)
        \/ IsSome(hitBVH) /\ IsSome(hitList) /\ hitBVH.t = hitList.t

\* C12 as stated: BVHNode::new over an empty span panics.
C12_EmptySpanPanics ==
    (bvh # NoBVH /\ objects = <<>>) => bvh = Panicked

\* C12: BVHNode::new over an empty span never returns a node; the
\* construction ends the process by exhausting the stack (the `_` arm
\* recurses on an empty left span without end), not by a panic.  Over a
\* non-empty span it returns a node.
C12_EmptySpanOverflowsStack ==
    bvh # NoBVH =>
        IF objects = <<>> THEN bvh = StackOverflow ELSE bvh.kind = "bvh"

\* The construction over an empty list has aborted.
C12_Witness == objects = <<>> /\ bvh = StackOverflow

\* The BVH nodes of a tree.
RECURSIVE NodesOf(_)
NodesOf(node) ==
    IF node.kind # "bvh" THEN {}
    ELSE {node} \cup NodesOf(node.left) \cup NodesOf(node.right)

\* What the left child reports for the ray cast, and what the right child
\* reports once the interval's upper bound is narrowed to the left hit's t.
LeftHit(node) == Hit(node.left, ray, ray_t)

RightHit(node) ==
    Hit(node.right, ray,
        IF IsSome(LeftHit(node)) THEN Interval(ray_t.min, LeftHit(node).t) ELSE ray_t)

\* C19: in BVHNode::hit the right child is queried with the upper bound
\* narrowed to the left hit's t, so when both children report a hit the right
\* one's t is not greater than the left one's; the node returns the right
\* result if present, else the left one, and that is the nearer of the hits
\* the two children report over the interval given.
C19_RightIfPresentIsNearer ==
    (Queried /\ bvh.kind = "bvh") =>
        \A node \in NodesOf(bvh) :
            /\ (IsSome(LeftHit(node)) /\ IsSome(RightHit(node)))
                  => FLe(RightHit(node).t, LeftHit(node).t)
            /\ AABBHit(node.bbox, ray, ray_t) =>
                  /\ Hit(node, ray, ray_t)
                        = IF IsSome(RightHit(node)) THEN RightHit(node) ELSE LeftHit(node)
                  /\ IsSome(LeftHit(node))
                        => FLe(Hit(node, ray, ray_t).t, LeftHit(node).t)
                  /\ IsSome(Hit(node.right, ray, ray_t))
                        => FLe(Hit(node, ray, ray_t).t, Hit(node.right, ray, ray_t).t)

\* Both children of the root are hit, the right one nearer than the left.
C19_Witness ==
    /\ Queried
    /\ bvh.kind = "bvh"
    /\ bvh.left # bvh.right
    /\ IsSome(LeftHit(bvh))
    /\ IsSome(RightHit(bvh))
    /\ RightHit(bvh).t < LeftHit(bvh).t
    /\ hitBVH = RightHit(bvh)

\* The objects in a node's subtree.
RECURSIVE LeavesOf(_)
LeavesOf(node) ==
    IF node.kind # "bvh" THEN {node}
    ELSE LeavesOf(node.left) \cup LeavesOf(node.right)

Encloses(outer, inner) ==
    \A i \in Axes : FLe(outer[i].min, inner[i].min) /\ FGe(outer[i].max, inner[i].max)

\* The union of the boxes of a node's two children.
ChildrenBox(node) == from_aabbs(node.left.bbox, node.right.bbox)

\* No axis of the box is narrower than delta.
NoThinAxis(box) == \A i \in Axes : FGe(FSub(box[i].max, box[i].min), delta)

RECURSIVE Height(_)
Height(node) ==
    IF node.kind # "bvh" THEN 0
    ELSE LET l == Height(node.left)
             r == Height(node.right)
         IN  1 + (IF l > r THEN l ELSE r)

\* ceil(log2 n) for n >= 1
RECURSIVE CeilLog2(_)
CeilLog2(n) == IF n <= 1 THEN 0 ELSE 1 + CeilLog2((n + 1) \div 2)

\* The number of objects of the span a node was built over.
SpanOf(node) == Cardinality(LeavesOf(node))

\* C21: BVHNode::new returns for every span of n >= 1 objects, and the tree
\* is height-balanced: a node over m >= 3 objects has floor(m/2) of them on
\* its left and the rest on its right, both halves non-empty and differing
\* in size by at most 1, and no root-to-leaf path has more than
\* max(1, ceil(log2 n)) BVHNode levels.
C21_HeightBalanced ==
    (bvh # NoBVH /\ Len(objects) >= 1) =>
        /\ bvh.kind = "bvh"
        /\ Height(bvh) <= (IF CeilLog2(Len(objects)) > 1 THEN CeilLog2(Len(objects)) ELSE 1)
        /\ \A node \in NodesOf(bvh) :
              LET m == SpanOf(node)
                  nl == SpanOf(node.left)
                  nr == SpanOf(node.right)
              IN  m >= 3 =>
                    /\ nl = m \div 2
                    /\ nl + nr = m
                    /\ nl >= 1 /\ nr >= 1
                    /\ nr - nl \in {0, 1}

\* A tree over five objects: split two and three, three levels deep.
C21_Witness ==
    /\ bvh.kind = "bvh"
    /\ Len(objects) = 5
    /\ Height(bvh) = 3
    /\ SpanOf(bvh.left) = 2
    /\ SpanOf(bvh.right) = 3

\* The minimum coordinate of an object's box on an axis.
MinOn(object, axis) == object.bbox[axis].min

\* Where an object stands in a span of distinct objects.
PosIn(span, object) == CHOOSE k \in 1 .. Len(span) : span[k] = object

\* out holds the objects of span ordered by MinOn, equal ones in span's order.
IsStableSortOf(out, span, axis) ==
    /\ Len(out) = Len(span)
    /\ { out[k] : k \in 1 .. Len(out) } = { span[k] : k \in 1 .. Len(span) }
    /\ \A i \in 1 .. Len(out) : \A j \in i + 1 .. Len(out) :
          /\ FLe(MinOn(out[i], axis), MinOn(out[j], axis))
          /\ MinOn(out[i], axis) = MinOn(out[j], axis)
                => PosIn(span, out[i]) < PosIn(span, out[j])

\* C22: a span of one object gives a node whose two children are that
\* object; a span of two gives left = first and right = second as they
\* stand, unsorted; a span of three or more is sorted by the minimum
\* coordinate of the objects' boxes on the longest axis of the span's box
\* and then split, so in every node over three or more objects no object on
\* the left has a greater minimum than one on the right.
C22_BaseCasesAndSort ==
    [][(bvh = NoBVH /\ bvh' # NoBVH /\ Len(objects) >= 1) =>
          /\ Len(objects) = 1 =>
                /\ bvh'.left = objects[1]
                /\ bvh'.right = objects[1]
                /\ objects' = objects
          /\ Len(objects) = 2 =>
                /\ bvh'.left = objects[1]
                /\ bvh'.right = objects[2]
                /\ objects' = objects
          /\ Len(objects) = 3 =>
                /\ IsStableSortOf(objects', objects, longest_axis(bvh'.bbox))
                /\ bvh'.left.left = objects'[1]
                /\ bvh'.left.right = objects'[1]
                /\ bvh'.right.left = objects'[2]
                /\ bvh'.right.right = objects'[3]
          /\ \A node \in NodesOf(bvh') :
                /\ SpanOf(node) = 1 => node.left = node.right /\ node.left.kind # "bvh"
                /\ SpanOf(node) = 2 => node.left.kind # "bvh" /\ node.right.kind # "bvh"
                /\ SpanOf(node) >= 3 =>
                      /\ node.left.kind = "bvh" /\ node.right.kind = "bvh"
                      /\ \A a \in LeavesOf(node.left), b \in LeavesOf(node.right) :
                            FLe(MinOn(a, longest_axis(node.bbox)),
                                MinOn(b, longest_axis(node.bbox)))]_vars

\* A tree over two objects that stand in descending order on the longest
\* axis of their box: they were left as they stood.
C22_Witness ==
    /\ bvh.kind = "bvh"
    /\ Len(objects) = 2
    /\ bvh.left = objects[1]
    /\ bvh.right = objects[2]
    /\ FLt(MinOn(objects[2], longest_axis(bvh.bbox)), MinOn(objects[1], longest_axis(bvh.bbox)))

\* The axis-wise union of the boxes of a span: the least minimum and the
\* greatest maximum on every axis, nothing added.
RECURSIVE UnionOfBoxes(_)
UnionOfBoxes(span) ==
    IF span = <<>> THEN [i \in Axes |-> Interval(INFINITY, NEG_INFINITY)]
    ELSE LET rest == UnionOfBoxes(Tail(span))
             box == Head(span).bbox
         IN  [i \in Axes |-> Interval(FMin(box[i].min, rest[i].min),
                                       FMax(box[i].max, rest[i].max))]

ObjectSet(span) == { span[k] : k \in 1 .. Len(span) }

\* Each add appends one object behind those added before.
AddsAppend ==
    [][(bvh' = NoBVH /\ objects' # objects) =>
          /\ Len(objects') = Len(objects) + 1
          /\ SubSeq(objects', 1, Len(objects)) = objects]_vars

\* The builder reorders the list's objects and leaves its bbox alone.
BuildReorders ==
    [][(bvh = NoBVH /\ bvh' # NoBVH) =>
          /\ bbox' = bbox
          /\ Len(objects') = Len(objects)
          /\ ObjectSet(objects') = ObjectSet(objects)]_vars

RECURSIVE SlotsOf(_)
SlotsOf(node) ==
    IF node.kind # "bvh" THEN <<node>>
    ELSE SlotsOf(node.left) \o SlotsOf(node.right)

\* In how many leaf child slots of the tree an object stands.
SlotCount(object) ==
    Cardinality({ k \in 1 .. Len(SlotsOf(bvh)) : SlotsOf(bvh)[k] = object })

\* The nodes that have the object as a child.
ParentsOf(object) ==
    { node \in NodesOf(bvh) : node.left = object \/ node.right = object }

\* C29 as stated: the builder only permutes the span and leaves the list's
\* bbox alone; in a tree over n >= 2 objects every object stands in exactly
\* one leaf child slot, in a tree over one object in both slots of the node.
C29_OneSlotPerObject ==
    /\ BuildReorders
    /\ [](bvh.kind = "bvh" =>
            /\ ObjectSet(SlotsOf(bvh)) = ObjectSet(objects)
            /\ \A k \in 1 .. Len(objects) :
                  SlotCount(objects[k]) = IF Len(objects) = 1 THEN 2 ELSE 1)

\* C29 amended: the builder only permutes the span and leaves the list's
\* bbox alone; every object is a child of exactly one node of the tree, in
\* one of its slots when the node was built over two objects and in both
\* when it was built over one: the tree over a single object, and every
\* single-object half of a split.
C29_OneNodePerObject ==
    /\ BuildReorders
    /\ [](bvh.kind = "bvh" =>
            /\ ObjectSet(SlotsOf(bvh)) = ObjectSet(objects)
            /\ \A k \in 1 .. Len(objects) :
                  /\ Cardinality(ParentsOf(objects[k])) = 1
                  /\ \A node \in ParentsOf(objects[k]) :
                        SlotCount(objects[k]) = IF node.left = node.right THEN 2 ELSE 1
            /\ Len(objects) = 1 => SlotCount(objects[1]) = 2
            /\ Len(objects) \in {2, 4} =>
                  \A k \in 1 .. Len(objects) : SlotCount(objects[k]) = 1)

\* A tree over three objects: the left half is one object, which stands in
\* both slots of its node; the other two stand in one slot each.
C29_Witness ==
    /\ bvh.kind = "bvh"
    /\ Len(objects) = 3
    /\ SlotCount(objects[1]) = 2
    /\ SlotCount(objects[2]) = 1
    /\ SlotCount(objects[3]) = 1
    /\ Len(SlotsOf(bvh)) = 4

(***************************************************************************)
(* Properties of the AABB constructors                                     *)
(***************************************************************************)
Built(s) == made[s] # "empty"

\* C3: every box returned by from_points, from_aabbs or rotate has, on each
\* of its three axes, an interval of size at least delta (0.0001).
C3_PaddingInvariant ==
    \A s \in Slots : Built(s) => \A i \in Axes : FGe(size(boxes[s][i]), delta)

\* The sizes of the box longest_axis was last asked about.
AxisSize(i) == size(axisBox[i])

IsGreatest(i) == \A k \in Axes : FGe(AxisSize(i), AxisSize(k))

\* C4 as stated: longest_axis returns an axis of greatest size and resolves
\* ties toward the lower index, so axis 2 is returned only when it is strictly
\* longer than both axis 0 and axis 1.
C4_TiesToLowerIndex ==
    axisOut # -1 =>
        /\ IsGreatest(axisOut)
        /\ (axisOut = 2 => FGt(AxisSize(2), AxisSize(0)) /\ FGt(AxisSize(2), AxisSize(1)))

\* C4 amended: longest_axis returns an axis of greatest size, and every tie
\* goes to the higher index: axis 0 only when strictly longer than axes 1 and
\* 2, axis 1 only when strictly longer than axis 2 (and not shorter than 0).
C4_TiesToHigherIndex ==
    axisOut # -1 =>
        /\ axisOut \in Axes
        /\ IsGreatest(axisOut)
        /\ (axisOut = 0 => FGt(AxisSize(0), AxisSize(1)) /\ FGt(AxisSize(0), AxisSize(2)))
        /\ (axisOut = 1 => FGe(AxisSize(1), AxisSize(0)) /\ FGt(AxisSize(1), AxisSize(2)))

\* A cube: all three sizes tie, and axis 2 is the answer.
C4_Witness ==
    /\ axisOut = 2
    /\ IsFinite(AxisSize(0))
    /\ AxisSize(0) = AxisSize(1)
    /\ AxisSize(1) = AxisSize(2)

\* C14: from_aabbs(a, b) equals from_aabbs(b, a) axis by axis, and
\* from_aabbs(a, a) is a with each axis narrower than delta (0.0001) widened
\* by delta / 2 on both sides: exactly a when no axis is narrower than delta.
C14_UnionCommutativeIdempotent ==
    [][(made[5] = "empty" /\ made'[5] # "empty") =>
          /\ \A i \in Axes : boxes'[5][i] = boxes'[6][i]
          /\ \A i \in Axes :
                boxes'[7][i] = IF FLt(FSub(boxes[1][i].max, boxes[1][i].min), delta)
                               THEN Interval(FSub(boxes[1][i].min, 1), FAdd(boxes[1][i].max, 1))
                               ELSE boxes[1][i]
          /\ (\A i \in Axes : FGe(FSub(boxes[1][i].max, boxes[1][i].min), delta))
                => boxes'[7] = boxes[1]]_vars

\* Two different boxes were united, neither enclosing the other, and the
\* first one has an axis the union with itself pads.
C14_Witness ==
    /\ made[5] = "from_aabbs"
    /\ boxes[5] # boxes[1]
    /\ boxes[5] # boxes[2]
    /\ boxes[7] # boxes[1]
    /\ \E i \in Axes : boxes[7][i] = boxes[1][i]

(***************************************************************************)
(* Camera: one pixel of render (camera.rs:63-68) and ray_color             *)
(* (camera.rs:187-204).  The scene and the materials are the environment:  *)
(* each world.hit, emitted and scatter call answers nondeterministically.  *)
(* ray_color's recursion is run on an explicit stack: a frame keeps what   *)
(* the caller still needs after the recursive call returns.  Colour        *)
(* components are whole-valued f64 numbers.                                *)
(***************************************************************************)
\* Largest max_depth and samples_per_pixel configured.
MaxDepth == 2
MaxSamples == 2

\* Color::zero()
Zero == Pt(0, 0, 0)

\* Colours the environment answers with: all components >= 0.
Backgrounds == { Pt(1, 0, 2) }
Emissions == { Zero, Pt(0, 3, 1) }
Attenuations == { Pt(0, 1, 2), Pt(1, 1, 1) }

\* pixel_samples_scale = 1.0 / samples_per_pixel, in 256ths.
FixOne == 256

pixel_samples_scale(samples) == FixOne \div samples

\* Color * Color, Color + Color, Color * f64
CMul(a, b) == [c \in Axes |-> a[c] * b[c]]
CAdd(a, b) == [c \in Axes |-> a[c] + b[c]]
CScale(a, k) == [c \in Axes |-> a[c] * k]

\* A mis-signed combination of emission and scattered light.
ScatterResult_sub(color_from_emission, attenuation, incoming) ==
    [c \in Axes |-> color_from_emission[c] - attenuation[c] * incoming[c]]

\* color_from_emission + attenuation * ray_color(scattered, depth - 1, world)
ScatterResult(color_from_emission, attenuation, incoming) ==
    CAdd(color_from_emission, CMul(attenuation, incoming))

\* The bounce limit tested with < instead of <=.
BounceLimit_lt(depth) == depth < 0

\* depth <= 0: the ray bounce limit is exceeded
BounceLimit(depth) == depth <= 0

\* Interval::from(0.001, f64::INFINITY), in units of 0.00005
RayColorInterval == Interval(20, INFINITY)

\* What one world.hit query of ray_color and the material calls after it
\* answered: "miss", or a hit that is absorbed or scattered.
Answer(outcome, color_from_emission, attenuation) ==
    [ray_t |-> RayColorInterval, outcome |-> outcome,
     emission |-> color_from_emission, attenuation |-> attenuation]

InitPixelIdle ==
    /\ pxPc = "idle"
    /\ sample = 0
    /\ color = Zero
    /\ pixel = Zero
    /\ rcPc = "idle"
    /\ rcDepth = 0
    /\ rcStack = <<>>
    /\ rcValue = Zero
    /\ rcHits = 0
    /\ rcMats = 0
    /\ rcLog = <<>>

InitCameraDefault ==
    /\ max_depth = 1
    /\ samples_per_pixel = 1
    /\ background \in Backgrounds

InitCamera ==
    /\ max_depth \in -1 .. MaxDepth
    /\ samples_per_pixel \in 1 .. MaxSamples
    /\ background \in Backgrounds

\* let mut color = Color::zero(); for _ in 0..samples
PixelBegin ==
    /\ pxPc = "idle"
    /\ pxPc' = "sampling"
    /\ sample' = 0
    /\ color' = Zero
    /\ UNCHANGED <<pixel, rcPc, rcDepth, rcStack, rcValue, rcHits, rcMats, rcLog>>
    /\ UNCHANGED <<aabbVars, sceneVars, cameraVars, renderVars, setupVars, wrapVars>>

\* self.ray_color(&r, max_depth, world): the outermost call of a sample
SampleCall ==
    /\ pxPc = "sampling"
    /\ rcPc = "idle"
    /\ sample < samples_per_pixel
    /\ rcPc' = "call"
    /\ rcDepth' = max_depth
    /\ rcStack' = <<>>
    /\ rcHits' = 0
    /\ rcMats' = 0
    /\ rcLog' = <<>>
    /\ UNCHANGED <<pxPc, sample, color, pixel, rcValue>>
    /\ UNCHANGED <<aabbVars, sceneVars, cameraVars, renderVars, setupVars, wrapVars>>

\* if depth <= 0 { return Color::zero(); }
RcBounceLimit ==
    /\ rcPc = "call"
    /\ BounceLimit(rcDepth)
    /\ rcValue' = Zero
    /\ rcPc' = "return"
    /\ UNCHANGED <<pxPc, sample, color, pixel, rcDepth, rcStack, rcHits, rcMats, rcLog>>
    /\ UNCHANGED <<aabbVars, sceneVars, cameraVars, renderVars, setupVars, wrapVars>>

\* world.hit returns None: the background
RcMiss ==
    /\ rcPc = "call"
    /\ ~BounceLimit(rcDepth)
    /\ rcHits' = rcHits + 1
    /\ rcLog' = Append(rcLog, Answer("miss", Zero, Zero))
    /\ rcValue' = background
    /\ rcPc' = "return"
    /\ UNCHANGED <<pxPc, sample, color, pixel, rcDepth, rcStack, rcMats>>
    /\ UNCHANGED <<aabbVars, sceneVars, cameraVars, renderVars, setupVars, wrapVars>>

\* a hit whose material does not scatter: the emission alone
RcAbsorb(color_from_emission) ==
    /\ rcPc = "call"
    /\ ~BounceLimit(rcDepth)
    /\ rcHits' = rcHits + 1
    /\ rcMats' = rcMats + 1
    /\ rcLog' = Append(rcLog, Answer("absorb", color_from_emission, Zero))
    /\ rcValue' = color_from_emission
    /\ rcPc' = "return"
    /\ UNCHANGED <<pxPc, sample, color, pixel, rcDepth, rcStack>>
    /\ UNCHANGED <<aabbVars, sceneVars, cameraVars, renderVars, setupVars, wrapVars>>

\* a hit whose material scatters: recurse with depth - 1
RcScatter(color_from_emission, attenuation) ==
    /\ rcPc = "call"
    /\ ~BounceLimit(rcDepth)
    /\ rcHits' = rcHits + 1
    /\ rcMats' = rcMats + 1
    /\ rcLog' = Append(rcLog, Answer("scatter", color_from_emission, attenuation))
    /\ rcStack' = <<[emission |-> color_from_emission, attenuation |-> attenuation]>> \o rcStack
    /\ rcDepth' = rcDepth - 1
    /\ UNCHANGED <<pxPc, sample, color, pixel, rcPc, rcValue>>
    /\ UNCHANGED <<aabbVars, sceneVars, cameraVars, renderVars, setupVars, wrapVars>>

\* the recursive call returns into color_from_emission + color_from_scatter
RcReturn ==
    /\ rcPc = "return"
    /\ rcStack # <<>>
    /\ rcValue' = ScatterResult(Head(rcStack).emission, Head(rcStack).attenuation, rcValue)
    /\ rcStack' = Tail(rcStack)
    /\ rcDepth' = rcDepth + 1
    /\ UNCHANGED <<pxPc, sample, color, pixel, rcPc, rcHits, rcMats, rcLog>>
    /\ UNCHANGED <<aabbVars, sceneVars, cameraVars, renderVars, setupVars, wrapVars>>

\* color += self.ray_color(...)
SampleDone ==
    /\ pxPc = "sampling"
    /\ rcPc = "return"
    /\ rcStack = <<>>
    /\ color' = CAdd(color, rcValue)
    /\ sample' = sample + 1
    /\ rcPc' = "idle"
    /\ UNCHANGED <<pxPc, pixel, rcDepth, rcStack, rcValue, rcHits, rcMats, rcLog>>
    /\ UNCHANGED <<aabbVars, sceneVars, cameraVars, renderVars, setupVars, wrapVars>>

\* color *= scale
PixelScale ==
    /\ pxPc = "sampling"
    /\ rcPc = "idle"
    /\ sample >= samples_per_pixel
    /\ pixel' = CScale(color, pixel_samples_scale(samples_per_pixel))
    /\ pxPc' = "done"
    /\ UNCHANGED <<sample, color, rcPc, rcDepth, rcStack, rcValue, rcHits, rcMats, rcLog>>
    /\ UNCHANGED <<aabbVars, sceneVars, cameraVars, renderVars, setupVars, wrapVars>>

NextPixel ==
    \/ PixelBegin
    \/ SampleCall
    \/ RcBounceLimit
    \/ RcMiss
    \/ \E e \in Emissions : RcAbsorb(e)
    \/ \E e \in Emissions, a \in Attenuations : RcScatter(e, a)
    \/ RcReturn
    \/ SampleDone
    \/ PixelScale

(***************************************************************************)
(* Properties of ray_color and of the pixel accumulation                   *)
(***************************************************************************)
NonNegative(c) == \A k \in Axes : c[k] >= 0

\* C5: a ray_color call with depth = 0 (max_depth = 0) returns exactly the
\* zero colour, and makes no world.hit and no material call.
C5_DepthZeroIsBlack ==
    [][(rcPc = "call" /\ rcDepth = 0) =>
          (rcPc' = "return" /\ rcValue' = Zero /\ rcHits' = rcHits /\ rcMats' = rcMats)]_vars

\* An outermost call made with max_depth = 0 has returned black, unqueried.
C5_Witness ==
    /\ max_depth = 0
    /\ pxPc = "sampling"
    /\ rcPc = "return"
    /\ rcStack = <<>>
    /\ rcValue = Zero
    /\ rcHits = 0

RECURSIVE Estimator(_, _, _)
Estimator(answers, depth, bg) ==
    IF depth <= 0 \/ answers = <<>> THEN Zero
    ELSE IF Head(answers).outcome = "miss" THEN bg
    ELSE IF Head(answers).outcome = "absorb" THEN Head(answers).emission
    ELSE [c \in Axes |->
            Head(answers).emission[c]
              + Head(answers).attenuation[c] * Estimator(Tail(answers), depth - 1, bg)[c]]

\* The outermost ray_color call of a sample has returned.
OutermostReturned == pxPc = "sampling" /\ rcPc = "return" /\ rcStack = <<>>

\* C17: for depth > 0 ray_color is the direct recursive estimator: one
\* world.hit query per call, over (0.001, +infinity); the background on a
\* miss; on a hit the emission, plus attenuation * ray_color(scattered,
\* depth - 1) component by component if the material scatters.
C17_RecursiveEstimator ==
    (OutermostReturned /\ max_depth > 0) =>
        /\ rcValue = Estimator(rcLog, max_depth, background)
        /\ rcHits = Len(rcLog)
        /\ \A k \in 1 .. Len(rcLog) : rcLog[k].ray_t = Interval(20, INFINITY)
        /\ \A k \in 1 .. Len(rcLog) - 1 : rcLog[k].outcome = "scatter"

\* A call that hit an emitting, scattering material and then missed.
C17_Witness ==
    /\ OutermostReturned
    /\ Len(rcLog) = 2
    /\ rcLog[1].outcome = "scatter"
    /\ rcLog[1].emission # Zero
    /\ rcLog[2].outcome = "miss"
    /\ rcValue # rcLog[1].emission

\* Every ray_color call has a depth one smaller than its caller's, the
\* hit queries of one outermost call number at most max(max_depth, 0), and
\* the pending callers never more than that.
DepthBound ==
    LET d == IF max_depth > 0 THEN max_depth ELSE 0
    IN  /\ rcHits <= d
        /\ Len(rcStack) <= d
        /\ rcPc # "idle" => rcDepth + Len(rcStack) = max_depth

\* C18: ray_color terminates whatever the scene and the materials answer:
\* every call returns, each recursive call is made with depth exactly one
\* smaller, a call with depth d makes at most max(d, 0) nested hit queries
\* and the recursion is never deeper than max_depth.
C18_Terminates ==
    /\ []DepthBound
    /\ (rcPc = "call") ~> OutermostReturned

\* A material that always scatters was followed down to the bounce limit.
C18_Witness ==
    /\ OutermostReturned
    /\ max_depth = MaxDepth
    /\ rcHits = MaxDepth
    /\ \A k \in 1 .. Len(rcLog) : rcLog[k].outcome = "scatter"

(***************************************************************************)
(* Camera::render (camera.rs:43-99): the buffer is cut into chunks of      *)
(* width * 3 bytes, one task per chunk, and the tasks run in any           *)
(* interleaving.  A task renders its pixels left to right, then bumps the  *)
(* progress counter and may report.  What a pixel's samples return is      *)
(* fixed by the scene and the random draws: draws[j][i] is the sum of the  *)
(* ray_color results of pixel (i, j).  Writes to stderr and the image      *)
(* save succeed or fail nondeterministically.                              *)
(***************************************************************************)
image_width == 2
image_height == 3

Palette == <<Zero, Pt(1, 0, 2), Pt(0, 3, 1)>>

\* vec![0u8; width * height * 3]
BufferLen == image_width * image_height * 3

\* par_chunks_mut(width * 3)
chunk_size == image_width * 3

\* the chunks of par_chunks_mut(chunk_size), enumerated
Chunks == 0 .. ((BufferLen + chunk_size - 1) \div chunk_size) - 1

Columns == 0 .. image_width - 1

\* where chunk j starts in the buffer
ChunkStart(j) == j * chunk_size

DrawTable(k) == [j \in Chunks |-> [i \in Columns |-> Palette[((i + 2 * j + k) % 3) + 1]]]

\* A pixel offset of two bytes instead of three.
PixelOffset_two(i) == i * 2

\* let i = i * 3
PixelOffset(i) == i * 3

\* A pixel value that depends on the progress counter.
PixelColor_progress(j, i) ==
    CScale(CAdd(draws[j][i], Pt(counter, counter, counter)),
           pixel_samples_scale(samples_per_pixel))

\* color += ray_color(...) for each sample; color *= scale
PixelColor(j, i) == CScale(draws[j][i], pixel_samples_scale(samples_per_pixel))

\* f64::sqrt of x / FixOne, in 256ths, rounded down
FixSqrt(x) ==
    CHOOSE r \in 0 .. (IF x > FixOne THEN x ELSE FixOne) :
        r * r <= x * FixOne /\ (r + 1) * (r + 1) > x * FixOne

linear_to_gamma(linear_component) ==
    IF linear_component > 0 THEN FixSqrt(linear_component) ELSE 0

\* Interval::from(0.000, 0.999), in 256ths
INTENSITY == Interval(0, (999 * FixOne) \div 1000)

\* (256.0 * INTENSITY.clamp(linear_to_gamma(x))) as u8
ToByte(x) == (256 * clamp(INTENSITY, linear_to_gamma(x))) \div FixOne

\* let color: ColorU8 = color.into()
ColorU8From(c) == [k \in Axes |-> ToByte(c[k])]

\* for_each returning as soon as some task has finished.
ParLoopJoined_any == \E j \in Chunks : rowPc[j] = "done"

\* for_each returns once every task has finished
ParLoopJoined == \A j \in Chunks : rowPc[j] = "done"

InitRenderIdle ==
    /\ draws = DrawTable(0)
    /\ buffer = <<>>
    /\ rowPc = [j \in Chunks |-> "idle"]
    /\ rowCol = [j \in Chunks |-> 0]
    /\ rowPrev = [j \in Chunks |-> 0]
    /\ counter = 0
    /\ printed = <<>>
    /\ renderPc = "idle"
    /\ retVal = "none"
    /\ image = <<>>
    /\ written = <<>>
    /\ saveAttempted = FALSE
    /\ saveFailed = FALSE

\* lines 44-55: the buffer and the counter; the tasks are spawned
RenderBegin(k) ==
    /\ renderPc = "idle"
    /\ draws' = DrawTable(k)
    /\ buffer' = [b \in 0 .. BufferLen - 1 |-> 0]
    /\ written' = [b \in 0 .. BufferLen - 1 |-> <<>>]
    /\ rowPc' = [j \in Chunks |-> "pixels"]
    /\ rowCol' = [j \in Chunks |-> 0]
    /\ counter' = 0
    /\ renderPc' = "rendering"
    /\ UNCHANGED <<rowPrev, printed, retVal, image, saveAttempted, saveFailed>>
    /\ UNCHANGED <<aabbVars, sceneVars, cameraVars, pixelVars, setupVars, wrapVars>>

\* lines 62-78: task j renders its next pixel and stores the three bytes
RenderPixel(j) ==
    /\ rowPc[j] = "pixels"
    /\ rowCol[j] < image_width
    /\ LET i == rowCol[j]
           bytes == ColorU8From(PixelColor(j, i))
           at0 == ChunkStart(j) + PixelOffset(i)
       IN  /\ buffer' = [b \in DOMAIN buffer |->
                            IF b \in at0 .. at0 + 2 THEN bytes[b - at0] ELSE buffer[b]]
           /\ written' = [b \in DOMAIN written |->
                            IF b \in at0 .. at0 + 2
                            THEN Append(written[b], <<j, i, b - at0>>)
                            ELSE written[b]]
    /\ rowCol' = [rowCol EXCEPT ![j] = @ + 1]
    /\ UNCHANGED <<draws, rowPc, rowPrev, counter, printed,
                   renderPc, retVal, image, saveAttempted, saveFailed>>
    /\ UNCHANGED <<aabbVars, sceneVars, cameraVars, pixelVars, setupVars, wrapVars>>

\* The counter read and handed out without being incremented.
FetchAdd_lost(j) ==
    /\ rowPc[j] = "pixels"
    /\ rowCol[j] >= image_width
    /\ rowPrev' = [rowPrev EXCEPT ![j] = counter]
    /\ rowPc' = [rowPc EXCEPT ![j] = "report"]
    /\ UNCHANGED <<draws, buffer, rowCol, counter, printed,
                   renderPc, retVal, image, written, saveAttempted, saveFailed>>
    /\ UNCHANGED <<aabbVars, sceneVars, cameraVars, pixelVars, setupVars, wrapVars>>

\* line 81: let prev = counter.fetch_add(1, SeqCst)
FetchAdd(j) ==
    /\ rowPc[j] = "pixels"
    /\ rowCol[j] >= image_width
    /\ rowPrev' = [rowPrev EXCEPT ![j] = counter]
    /\ counter' = counter + 1
    /\ rowPc' = [rowPc EXCEPT ![j] = "report"]
    /\ UNCHANGED <<draws, buffer, rowCol, printed,
                   renderPc, retVal, image, written, saveAttempted, saveFailed>>
    /\ UNCHANGED <<aabbVars, sceneVars, cameraVars, pixelVars, setupVars, wrapVars>>

\* lines 82-86: prev % 10 == 0, the write's result is dropped by .ok()
Report(j, ok) ==
    /\ rowPc[j] = "report"
    /\ rowPrev[j] % 10 = 0
    /\ printed' = IF ok THEN Append(printed, image_height - rowPrev[j]) ELSE printed
    /\ rowPc' = [rowPc EXCEPT ![j] = "done"]
    /\ UNCHANGED <<draws, buffer, rowCol, rowPrev, counter,
                   renderPc, retVal, image, written, saveAttempted, saveFailed>>
    /\ UNCHANGED <<aabbVars, sceneVars, cameraVars, pixelVars, setupVars, wrapVars>>

\* lines 82-87: prev % 10 != 0, nothing is reported
NoReport(j) ==
    /\ rowPc[j] = "report"
    /\ rowPrev[j] % 10 # 0
    /\ rowPc' = [rowPc EXCEPT ![j] = "done"]
    /\ UNCHANGED <<draws, buffer, rowCol, rowPrev, counter, printed,
                   renderPc, retVal, image, written, saveAttempted, saveFailed>>
    /\ UNCHANGED <<aabbVars, sceneVars, cameraVars, pixelVars, setupVars, wrapVars>>

\* line 88: writeln!(stderr, "\rFinish rendering.")?, after for_each
FinishMsg(ok) ==
    /\ renderPc = "rendering"
    /\ ParLoopJoined
    /\ renderPc' = IF ok THEN "saving_msg" ELSE "returned"
    /\ retVal' = IF ok THEN retVal ELSE "Err"
    /\ UNCHANGED <<draws, buffer, rowPc, rowCol, rowPrev, counter, printed,
                   image, written, saveAttempted, saveFailed>>
    /\ UNCHANGED <<aabbVars, sceneVars, cameraVars, pixelVars, setupVars, wrapVars>>

\* line 91: writeln!(stderr, "\rSaving image to ...")?
SavingMsg(ok) ==
    /\ renderPc = "saving_msg"
    /\ renderPc' = IF ok THEN "save" ELSE "returned"
    /\ retVal' = IF ok THEN retVal ELSE "Err"
    /\ UNCHANGED <<draws, buffer, rowPc, rowCol, rowPrev, counter, printed,
                   image, written, saveAttempted, saveFailed>>
    /\ UNCHANGED <<aabbVars, sceneVars, cameraVars, pixelVars, setupVars, wrapVars>>

\* lines 92-95: the buffer moves into the image (from_raw takes a buffer of
\* width * height * 3 bytes), then img.save(...).map_err(...)?
SaveImage(ok) ==
    /\ renderPc = "save"
    /\ Cardinality(DOMAIN buffer) = image_width * image_height * 3
    /\ image' = buffer
    /\ saveAttempted' = TRUE
    /\ saveFailed' = ~ok
    /\ renderPc' = IF ok THEN "done_msg" ELSE "returned"
    /\ retVal' = IF ok THEN retVal ELSE "Err"
    /\ UNCHANGED <<draws, buffer, rowPc, rowCol, rowPrev, counter, printed, written>>
    /\ UNCHANGED <<aabbVars, sceneVars, cameraVars, pixelVars, setupVars, wrapVars>>

\* lines 97-98: writeln!(stderr, "\rDone.")?; Ok(())
DoneMsg(ok) ==
    /\ renderPc = "done_msg"
    /\ renderPc' = "returned"
    /\ retVal' = IF ok THEN "Ok" ELSE "Err"
    /\ UNCHANGED <<draws, buffer, rowPc, rowCol, rowPrev, counter, printed,
                   image, written, saveAttempted, saveFailed>>
    /\ UNCHANGED <<aabbVars, sceneVars, cameraVars, pixelVars, setupVars, wrapVars>>

NextRender ==
    \/ \E k \in 0 .. 1 : RenderBegin(k)
    \/ \E j \in Chunks : RenderPixel(j)
    \/ \E j \in Chunks : FetchAdd(j)
    \/ \E j \in Chunks, ok \in BOOLEAN : Report(j, ok)
    \/ \E j \in Chunks : NoReport(j)
    \/ \E ok \in BOOLEAN : FinishMsg(ok)
    \/ \E ok \in BOOLEAN : SavingMsg(ok)
    \/ \E ok \in BOOLEAN : SaveImage(ok)
    \/ \E ok \in BOOLEAN : DoneMsg(ok)

(***************************************************************************)
(* Properties of render                                                    *)
(***************************************************************************)
Started == renderPc # "idle"

AllRowsDone == Started /\ \A j \in Chunks : rowPc[j] = "done"

\* C7: every byte of the buffer is written at most once, only by the task
\* of its own row j and only as component k of pixel (i, j) with
\* (j * width + i) * 3 + k its index; once all rows are done every byte has
\* been written exactly once and there is one task per image row.
C7_EachPixelOnceRowMajor ==
    Started =>
        /\ Chunks = 0 .. image_height - 1
        /\ \A b \in DOMAIN written :
              /\ Len(written[b]) <= 1
              /\ \A n \in 1 .. Len(written[b]) :
                    LET w == written[b][n]
                    IN  /\ w[1] \in 0 .. image_height - 1
                        /\ w[2] \in 0 .. image_width - 1
                        /\ w[3] \in 0 .. 2
                        /\ b = (w[1] * image_width + w[2]) * 3 + w[3]
              /\ AllRowsDone => Len(written[b]) = 1

\* All rows are done, having finished out of index order.
C7_Witness ==
    /\ AllRowsDone
    /\ rowPrev[0] > rowPrev[1]
    /\ \A b \in DOMAIN written : Len(written[b]) = 1

ExpectedBuffer ==
    [b \in 0 .. BufferLen - 1 |->
        ColorU8From(CScale(draws[b \div (image_width * 3)][(b % (image_width * 3)) \div 3],
                           pixel_samples_scale(samples_per_pixel)))[b % 3]]

\* C8: once all rows are done the buffer is a function of the camera, the
\* scene and the draws alone: whatever order the tasks ran in and whatever
\* the counter handed to each of them, the bytes are the same.
C8_BufferIndependentOfSchedule == AllRowsDone => buffer = ExpectedBuffer

\* The last row finished first and the first row last; the image is not flat.
C8_Witness ==
    /\ AllRowsDone
    /\ rowPrev[image_height - 1] = 0
    /\ rowPrev[0] = image_height - 1
    /\ \E b \in DOMAIN buffer : buffer[b] > 0
    /\ \E b \in DOMAIN buffer : buffer[b] = 0

\* The rows whose fetch_add has returned, and the values it returned.
Counted == { j \in Chunks : rowPc[j] \in {"report", "done"} }

Prevs == { rowPrev[j] : j \in Counted }

\* Each fetch_add hands out the counter's value and adds one; nothing else
\* changes the counter while the rows run.
CounterSteps ==
    [][Started =>
          \/ counter' = counter
          \/ \E j \in Chunks :
                /\ j \notin Counted
                /\ rowPc'[j] = "report"
                /\ rowPrev'[j] = counter
                /\ counter' = counter + 1]_vars

\* A message is written only by a row whose prev is a multiple of 10, once,
\* as it leaves its report step: the lines remaining, height - prev.  The
\* write's result is dropped, so a write that fails leaves no message.
MessageSteps ==
    [][Started =>
          \/ printed' = printed
          \/ \E j \in Chunks :
                /\ rowPc[j] = "report"
                /\ rowPc'[j] = "done"
                /\ rowPrev[j] % 10 = 0
                /\ printed' = Append(printed, image_height - rowPrev[j])]_vars

C9_ErrIffSaveFails ==
    renderPc = "returned" => (retVal = "Err" <=> saveFailed)

\* C10: the save is attempted only when every row task has finished and
\* every byte has been written; the image is the finished buffer, and it
\* stays so whether the save succeeds or fails.
C10_SaveAfterAllRows ==
    saveAttempted =>
        /\ AllRowsDone
        /\ \A b \in DOMAIN written : Len(written[b]) = 1
        /\ image = buffer
        /\ buffer = ExpectedBuffer

\* A failed save was reported and left the finished pixels as they were.
C10_Witness ==
    /\ renderPc = "returned"
    /\ saveFailed
    /\ retVal = "Err"
    /\ image = ExpectedBuffer

(***************************************************************************)
(* Camera::with_initialized (camera.rs:101-150).  The configured fields    *)
(* are drawn at the start; tan(vfov / 2) and tan(defocus_angle / 2) are    *)
(* given as the numbers tan_half_vfov and tan_half_defocus.  The function  *)
(* has no panic, unwrap, expect or Result: it always returns the camera.   *)
(***************************************************************************)
\* f64::EPSILON: below one unit of the model only 0 is left
EPSILON == 1

LookAts == { Pt(0, 0, 0), Pt(2, -4, 6) }

\* lookfrom - lookat: zero, or along an axis
ViewOffsets ==
    { Pt(0, 0, 0) } \cup
    { Pt(k, 0, 0) : k \in {-8, -4, 4, 8} } \cup
    { Pt(0, k, 0) : k \in {-8, -4, 4, 8} } \cup
    { Pt(0, 0, k) : k \in {-8, -4, 4, 8} }

Ups == { Pt(0, 1, 0), Pt(0, 0, 1) }

CameraConfigs ==
    [ image_width : {2, 4},
      aspect_ratio : {1, 2},
      samples_per_pixel : {1},
      lookat : LookAts,
      offset : ViewOffsets,
      vup : Ups,
      focus_dist : {0, 4},
      tan_half_vfov : {1, 2},
      tan_half_defocus : {0} ]

VDiv(a, k) == [c \in Axes |-> FDiv(a[c], k)]

with_initialized(self) ==
    LET lookfrom == VAdd(self.lookat, self.offset)
        height == FDiv(self.image_width, self.aspect_ratio)
        height_i32 == IF height < 1 THEN 1 ELSE height
        center == lookfrom
        focus_dist == IF FLt(self.focus_dist, EPSILON)
                      THEN length(VSub(self.lookat, lookfrom))
                      ELSE self.focus_dist
        h == self.tan_half_vfov
        viewport_height == FMul(FMul(2, h), focus_dist)
        viewport_width == FMul(viewport_height, FDiv(self.image_width, height_i32))
        w == into_unit_vector(VSub(lookfrom, self.lookat))
        u == into_unit_vector(cross(self.vup, w))
        v == cross(w, u)
        viewport_u == VScale(u, viewport_width)
        viewport_v == VScale(v, FNeg(viewport_height))
        pixel_delta_u == VDiv(viewport_u, self.image_width)
        pixel_delta_v == VDiv(viewport_v, height_i32)
        viewport_upper_left ==
            VSub(VSub(VSub(center, VScale(w, focus_dist)), VDiv(viewport_u, 2)),
                 VDiv(viewport_v, 2))
        defocus_radius == FMul(focus_dist, self.tan_half_defocus)
    IN  [ lookfrom |-> lookfrom,
          lookat |-> self.lookat,
          vup |-> self.vup,
          image_width |-> self.image_width,
          image_height |-> height_i32,
          pixel_samples_scale |-> pixel_samples_scale(self.samples_per_pixel),
          center |-> center,
          focus_dist |-> focus_dist,
          w |-> w, u |-> u, v |-> v,
          pixel_delta_u |-> pixel_delta_u,
          pixel_delta_v |-> pixel_delta_v,
          pixel00_loc |-> VAdd(viewport_upper_left,
                               VDiv(VAdd(pixel_delta_u, pixel_delta_v), 2)),
          defocus_disk_u |-> VScale(u, defocus_radius),
          defocus_disk_v |-> VScale(v, defocus_radius) ]

InitSetupIdle ==
    /\ config = CHOOSE c \in CameraConfigs : c.offset = Pt(0, 0, 8)
    /\ cam = [w |-> Zero, u |-> Zero, v |-> Zero]
    /\ camPc = "configured"

InitSetup ==
    /\ config \in CameraConfigs
    /\ cam = [w |-> Zero, u |-> Zero, v |-> Zero]
    /\ camPc = "configured"

\* Camera { .. }.with_initialized()
WithInitialized ==
    /\ camPc = "configured"
    /\ cam' = with_initialized(config)
    /\ camPc' = "initialized"
    /\ UNCHANGED config
    /\ UNCHANGED <<aabbVars, sceneVars, cameraVars, pixelVars, renderVars, wrapVars>>

NextSetup == WithInitialized

(***************************************************************************)
(* Properties of the camera setup                                          *)
(***************************************************************************)
\* C11: with_initialized never returns a camera when lookfrom equals lookat
\* (a camera whose basis was derived from a zero-length view vector).
C11_DegenerateBasisIsFatal ==
    camPc = "initialized" => cam.lookfrom # cam.lookat

(***************************************************************************)
(* ConstantMedium (constant_medium.rs).  ln_rand is the logarithm of the   *)
(* random number drawn in hit: a number below 0, or -infinity.             *)
(***************************************************************************)
\* ConstantMedium::from
ConstantMediumFrom(boundary, density, phase_function) ==
    [kind |-> "medium", boundary |-> boundary,
     neg_inv_density |-> FDiv(-1, density),
     phase_function |-> phase_function,
     bbox |-> bounding_box(boundary)]

\* A scattering record that also overwrites the normal and the face flag.
MediumRecord_normal(cm, r, rec1, t) ==
    [rec1 EXCEPT !.t = t, !.p = at(r, t), !.mat = cm.phase_function,
                 !.normal = Pt(1, 0, 0), !.front_face = TRUE]

\* let mut rec = rec1; rec.t += ...; rec.p = r.at(rec.t); rec.mat = phase_function
MediumRecord(cm, r, rec1, t) ==
    [rec1 EXCEPT !.t = t, !.p = at(r, t), !.mat = cm.phase_function]

\* The path length taken between the boundary hits as they are, unclipped.
MediumScatter_unclipped(cm, r, rt, ln_rand, rec1, rec2) ==
    LET ray_length == length(r.dir)
        hit_distance == FMul(cm.neg_inv_density, ln_rand)
    IN  IF FGt(hit_distance, FMul(FSub(rec2.t, rec1.t), ray_length)) THEN None
        ELSE [rec1 EXCEPT !.t = FAdd(rec1.t, FDiv(hit_distance, ray_length)),
                          !.p = at(r, FAdd(rec1.t, FDiv(hit_distance, ray_length))),
                          !.mat = cm.phase_function]

\* ConstantMedium::hit once both boundary records are at hand
MediumScatter(cm, r, rt, ln_rand, rec1, rec2) ==
    LET t1 == IF FLt(rec1.t, rt.min) THEN rt.min ELSE rec1.t
        t2 == IF FGt(rec2.t, rt.max) THEN rt.max ELSE rec2.t
        ray_length == length(r.dir)
        distance_inside_boundary == FMul(FSub(t2, t1), ray_length)
        hit_distance == FMul(cm.neg_inv_density, ln_rand)
    IN  IF FGt(hit_distance, distance_inside_boundary) THEN None
        ELSE MediumRecord(cm, r, rec1, FAdd(t1, FDiv(hit_distance, ray_length)))

\* ConstantMedium::hit; rec1.t + 0.0001 is rec1.t + 2 units
ConstantMediumHit(cm, r, rt, ln_rand) ==
    CHOOSE out \in
        { IF ~IsSome(rec1) THEN None
          ELSE CHOOSE out2 \in
                  { IF ~IsSome(rec2) THEN None
                    ELSE MediumScatter(cm, r, rt, ln_rand, rec1, rec2) :
                      rec2 \in { Hit(cm.boundary, r,
                                     Interval(FAdd(rec1.t, 2), INFINITY)) } } : TRUE :
            rec1 \in { Hit(cm.boundary, r, INTERVAL_UNIVERSE) } } : TRUE

\* Quad::new_box: the six sides of the box spanned by a and b
new_box(a, b, mat) ==
    LET lo == [c \in Axes |-> FMin(a[c], b[c])]
        hi == [c \in Axes |-> FMax(a[c], b[c])]
        dx == Pt(FSub(hi[0], lo[0]), 0, 0)
        dy == Pt(0, FSub(hi[1], lo[1]), 0)
        dz == Pt(0, 0, FSub(hi[2], lo[2]))
    IN  << QuadNew(Pt(lo[0], lo[1], hi[2]), dx, dy, mat),
           QuadNew(Pt(hi[0], lo[1], hi[2]), VNeg(dz), dy, mat),
           QuadNew(Pt(hi[0], lo[1], lo[2]), VNeg(dx), dy, mat),
           QuadNew(Pt(lo[0], lo[1], lo[2]), dz, dy, mat),
           QuadNew(Pt(lo[0], hi[1], hi[2]), dx, VNeg(dz), mat),
           QuadNew(Pt(lo[0], lo[1], lo[2]), dx, dz, mat) >>

(***************************************************************************)
(* One hit query on a plain quad or on a wrapper                           *)
(***************************************************************************)
Quad1 == QuadNew(Pt(0, 0, 0), Pt(4, 0, 0), Pt(0, 4, 0), "m1")
Quad3 == QuadNew(Pt(2, 0, 0), Pt(0, 4, 0), Pt(0, 0, 4), "m3")

Offsets == { Pt(1, 0, 0), Pt(0, -2, 3), Pt(-1, 2, -2) }

Translates ==
    { TranslateNew(o, v) : o \in {Quad1, Quad3, RotateYNew(Quad1, <<1, 0>>)}, v \in Offsets }

Rotations ==
    { RotateYNew(o, sc) :
        o \in {Quad1, Quad3, TranslateNew(Quad3, Pt(1, 0, 0))}, sc \in Turns }

Media ==
    { ConstantMediumFrom(ListOf(new_box(Pt(0, 0, 0), Pt(4, 4, 4), "m1")), 1, "isotropic") }

\* <<sin, cos>> of 60, 30 and 45 degrees in units of 1 / 256, as SigBits
\* significant bits hold them.  A power of two as the unit changes no
\* rounding: what transform and transform_back return is in units of 1 / 256.
TiltedTurns == { <<222, 128>>, <<128, 222>>, <<181, 181>> }

\* Outward normals in units of 1 / 256, of length 1 within the rounding.
OutwardNormals ==
    { Pt(256, 0, k) : k \in {-11, 0, 11} } \cup { Pt(181, 0, 181), Pt(-181, 0, 181) }

\* A surface as a sphere presents it to one ray: met at t = 1 with the
\* outward normal n.
Surface(n) ==
    [kind |-> "surface", outward_normal |-> n, t |-> 1, mat |-> "m1",
     bbox |-> from_points(Pt(-16, -16, -16), Pt(16, 16, 16))]

TiltedRotations == { RotateYNew(Surface(n), sc) : n \in OutwardNormals, sc \in TiltedTurns }

\* Ray directions in the plane the rotation turns.
PlaneDirections ==
    { Pt(x, 0, z) : x \in {-15, -11, -7, -4, 0, 4, 7, 11, 15},
                    z \in {-15, -11, -7, -4, 0, 4, 7, 11, 15} } \ { Pt(0, 0, 0) }

\* Rays along the axes: the medium divides by the length of the direction.
AxisDirections == { d \in Directions : dot(d, d) = 1 }

\* ln of a random number of [0, 1)
LnRands == { -1, -3, -6, NEG_INFINITY }

InitWrap ==
    /\ wKind = "none"
    /\ wObj = NoBVH
    /\ wRay = Ray(Pt(0, 0, 0), Pt(0, 0, 0), 0)
    /\ wIv = INTERVAL_EMPTY
    /\ wLn = 0
    /\ wRec = None

\* Quad::hit through HitRecord::new
HitPlain(quad, r, rt) ==
    /\ wKind = "none"
    /\ wKind' = "quad"
    /\ wObj' = quad
    /\ wRay' = r
    /\ wIv' = rt
    /\ wRec' = Hit(quad, r, rt)
    /\ UNCHANGED wLn
    /\ UNCHANGED <<aabbVars, sceneVars, cameraVars, pixelVars, renderVars, setupVars>>

\* Translate::hit
HitTranslate(tr, r, rt) ==
    /\ wKind = "none"
    /\ wKind' = "translate"
    /\ wObj' = tr
    /\ wRay' = r
    /\ wIv' = rt
    /\ wRec' = Hit(tr, r, rt)
    /\ UNCHANGED wLn
    /\ UNCHANGED <<aabbVars, sceneVars, cameraVars, pixelVars, renderVars, setupVars>>

\* RotateY::hit
HitRotateY(rot, r, rt) ==
    /\ wKind = "none"
    /\ wKind' = "rotate_y"
    /\ wObj' = rot
    /\ wRay' = r
    /\ wIv' = rt
    /\ wRec' = Hit(rot, r, rt)
    /\ UNCHANGED wLn
    /\ UNCHANGED <<aabbVars, sceneVars, cameraVars, pixelVars, renderVars, setupVars>>

\* ConstantMedium::hit
HitMedium(cm, r, rt, ln_rand) ==
    /\ wKind = "none"
    /\ wKind' = "medium"
    /\ wObj' = cm
    /\ wRay' = r
    /\ wIv' = rt
    /\ wLn' = ln_rand
    /\ wRec' = ConstantMediumHit(cm, r, rt, ln_rand)
    /\ UNCHANGED <<aabbVars, sceneVars, cameraVars, pixelVars, renderVars, setupVars>>

NextWrap ==
    \/ \E q \in QuadPool, o \in Origins, d \in Directions, rt \in RayIntervals :
          HitPlain(q, Ray(o, d, 0), rt)
    \/ \E tr \in Translates, o \in Origins, d \in Directions, rt \in RayIntervals :
          HitTranslate(tr, Ray(o, d, 0), rt)
    \/ \E rot \in Rotations, o \in Origins, d \in Directions, rt \in RayIntervals :
          HitRotateY(rot, Ray(o, d, 0), rt)
    \/ \E rot \in TiltedRotations, d \in PlaneDirections :
          HitRotateY(rot, Ray(Pt(0, 0, 0), d, 0), Interval(0, INFINITY))
    \/ \E cm \in Media, o \in Origins, d \in AxisDirections, rt \in RayIntervals,
          ln_rand \in LnRands :
          HitMedium(cm, Ray(o, d, 0), rt, ln_rand)

\* Boxes a ray is tested against.
SlabBoxes == { from_points(a, b) : a \in PointPool, b \in PointPool }

\* AABB::hit on a box by itself
HitAABB(box, r, rt) ==
    /\ wKind = "none"
    /\ wKind' = "aabb"
    /\ wObj' = [kind |-> "aabb", bbox |-> box]
    /\ wRay' = r
    /\ wIv' = rt
    /\ wRec' = [kind |-> "bool", value |-> AABBHit(box, r, rt)]
    /\ UNCHANGED wLn
    /\ UNCHANGED <<aabbVars, sceneVars, cameraVars, pixelVars, renderVars, setupVars>>

NextSlab ==
    \E box \in SlabBoxes, o \in Origins, d \in Directions, rt \in RayIntervals :
        HitAABB(box, Ray(o, d, 0), rt)

\* Edge vectors of the shapes: along the axes, and turned by 45 degrees.
ShapeEdges == { <<Pt(4, 0, 0), Pt(0, 4, 0)>>, <<Pt(2, 2, 0), Pt(2, -2, 0)>> }

Shapes == { ParallelogramShape, TriangleShape, CircleShape, EllipseShape,
            AnnulusShape(<<1, 2>>) }

\* One quad of every shape on every pair of edges, all in the plane z = 0.
ShapedQuads ==
    { with_shape(Pt(0, 0, 0), e[1], e[2], "m1", shape) : e \in ShapeEdges, shape \in Shapes }

\* Rays straight at the plane z = 0, one through each point of a grid.
GridOrigins == { Pt(x, y, -1) : x \in -5 .. 5, y \in -5 .. 5 }

\* Quad::hit on each shape, one ray through each grid point of its plane.
NextShape ==
    \E quad \in ShapedQuads, o \in GridOrigins :
        HitPlain(quad, Ray(o, Pt(0, 0, 1), 0), Interval(0, INFINITY))

\* A sphere of radius 5 about the origin, and rays that meet it, graze it
\* or pass it, from outside and from inside, at ray parameters that are
\* whole numbers.
Spheres == { SphereNew(Pt(0, 0, 0), 5, "m1") }

SphereRays ==
    { Ray(Pt(x, 0, -10), Pt(0, 0, 1), 0) : x \in {0, 3, 4, 5, 6} } \cup
    { Ray(Pt(x, 0, -10), Pt(0, 0, 2), 0) : x \in {3, 5, 6} } \cup
    { Ray(Pt(x, 0, 0), Pt(0, 0, d), 0) : x \in {0, 3}, d \in {-1, 1} }

SphereIntervals ==
    { Interval(0, INFINITY), Interval(0, 6), Interval(7, INFINITY), Interval(4, 14) }

\* Spans a list and a tree are made of.
Scenes ==
    { <<QuadNew(Pt(0, 0, 0), Pt(4, 0, 0), Pt(0, 4, 0), "m1"),
        QuadNew(Pt(0, 0, 4), Pt(4, 0, 0), Pt(0, 4, 0), "m2")>>,
      <<QuadNew(Pt(1, 1, 8), Pt(2, 0, 0), Pt(0, 2, 0), "m1"),
        QuadNew(Pt(2, 0, 0), Pt(0, 4, 0), Pt(0, 0, 4), "m3"),
        QuadNew(Pt(0, 0, 4), Pt(4, 0, 0), Pt(0, 4, 0), "m2")>> }

\* Sphere::hit
HitSphere(sph, r, rt) ==
    /\ wKind = "none"
    /\ wKind' = "sphere"
    /\ wObj' = sph
    /\ wRay' = r
    /\ wIv' = rt
    /\ wRec' = Hit(sph, r, rt)
    /\ UNCHANGED wLn
    /\ UNCHANGED <<aabbVars, sceneVars, cameraVars, pixelVars, renderVars, setupVars>>

\* HittableList::hit
HitList(list, r, rt) ==
    /\ wKind = "none"
    /\ wKind' = "list"
    /\ wObj' = list
    /\ wRay' = r
    /\ wIv' = rt
    /\ wRec' = Hit(list, r, rt)
    /\ UNCHANGED wLn
    /\ UNCHANGED <<aabbVars, sceneVars, cameraVars, pixelVars, renderVars, setupVars>>

\* BVHNode::hit
HitBVH(node, r, rt) ==
    /\ wKind = "none"
    /\ wKind' = "bvh"
    /\ wObj' = node
    /\ wRay' = r
    /\ wIv' = rt
    /\ wRec' = Hit(node, r, rt)
    /\ UNCHANGED wLn
    /\ UNCHANGED <<aabbVars, sceneVars, cameraVars, pixelVars, renderVars, setupVars>>

\* One hit query on a hittable of any kind.
NextHits ==
    \/ NextWrap
    \/ \E sph \in Spheres, r \in SphereRays, rt \in SphereIntervals : HitSphere(sph, r, rt)
    \/ \E span \in Scenes, o \in Origins, d \in Directions, rt \in RayIntervals :
          HitList(ListOf(span), Ray(o, d, 0), rt)
    \/ \E span \in Scenes, o \in Origins, d \in Directions, rt \in RayIntervals :
          HitBVH(BVHNodeNew(span).node, Ray(o, d, 0), rt)

(***************************************************************************)
(* Properties of AABB::hit                                                 *)
(***************************************************************************)
\* The ray parameters at which the ray tested crosses the two planes of an
\* axis of the box tested, the smaller one and the greater one.
PlaneT(plane, axis) == FDiv(FSub(plane, wRay.orig[axis]), wRay.dir[axis])

SlabEnter(axis) == FMin(PlaneT(wObj.bbox[axis].min, axis), PlaneT(wObj.bbox[axis].max, axis))

SlabLeave(axis) == FMax(PlaneT(wObj.bbox[axis].min, axis), PlaneT(wObj.bbox[axis].max, axis))

\* [tmin, tmax] intersected with the slabs of the axes given, all at once:
\* whether an interval with upper bound above the lower bound is left.
SlabsLeave(axes) ==
    LET lo(axis) == IF axis \in axes THEN SlabEnter(axis) ELSE wIv.min
        hi(axis) == IF axis \in axes THEN SlabLeave(axis) ELSE wIv.max
    IN  FGt(FMin(FMin(FMin(wIv.max, hi(0)), hi(1)), hi(2)),
            FMax(FMax(FMax(wIv.min, lo(0)), lo(1)), lo(2)))

\* The axes on which the ray tested does not move.
ZeroAxes == { axis \in Axes : wRay.dir[axis] = 0 }

\* C23: for a box of positive size on every axis and a ray whose direction
\* has no zero component, AABB::hit returns true iff [tmin, tmax] intersected
\* with [min(t0, t1), max(t0, t1)] of the three axes leaves an interval
\* whose upper bound is strictly above its lower bound; leaving the loop
\* early changes nothing.
C23_SlabTest ==
    (/\ wKind = "aabb"
     /\ ZeroAxes = {}
     /\ \A axis \in Axes : FGt(size(wObj.bbox[axis]), 0))
        => wRec.value = SlabsLeave(Axes)

\* A ray that enters the slabs of two axes and misses the box on the third:
\* the loop ran to its last axis and answered no; and its direction has
\* components of both signs.
C23_Witness ==
    /\ wKind = "aabb"
    /\ ZeroAxes = {}
    /\ \A axis \in Axes : FGt(size(wObj.bbox[axis]), 0)
    /\ \E a \in Axes, b \in Axes : wRay.dir[a] < 0 /\ wRay.dir[b] > 0
    /\ SlabsLeave({0, 1})
    /\ ~SlabsLeave(Axes)
    /\ wRec.value = FALSE

\* C24: when the ray's direction is 0 on an axis, AABB::hit returns false
\* if the origin's coordinate on that axis lies outside [min, max] of the
\* box, and the axis adds no constraint if it lies within [min, max]: the
\* answer is then that of the other axes alone.
C24_ZeroDirection ==
    (wKind = "aabb" /\ ZeroAxes # {}) =>
        IF \E axis \in ZeroAxes : ~contains(wObj.bbox[axis], wRay.orig[axis])
        THEN wRec.value = FALSE
        ELSE wRec.value = SlabsLeave(Axes \ ZeroAxes)

(***************************************************************************)
(* Properties of every hittable                                            *)
(***************************************************************************)
\* C28: a record returned by the hit of a Sphere, Quad, HittableList,
\* BVHNode, Translate, RotateY or ConstantMedium has its t within the
\* interval the caller gave: ray_t.min <= rec.t <= ray_t.max.
C28_HitWithinInterval ==
    (wKind \in {"sphere", "quad", "list", "bvh", "translate", "rotate_y", "medium"}
       /\ IsSome(wRec))
        => FLe(wIv.min, wRec.t) /\ FLe(wRec.t, wIv.max)

\* A sphere whose nearer root lies before the interval: the farther root
\* was returned.
C28_Witness ==
    /\ wKind = "sphere"
    /\ IsSome(wRec)
    /\ wIv.min > 0
    /\ ~wRec.front_face
    /\ IsSome(Hit(wObj, wRay, INTERVAL_UNIVERSE))
    /\ FLt(Hit(wObj, wRay, INTERVAL_UNIVERSE).t, wIv.min)

(***************************************************************************)
(* Properties of Quad                                                      *)
(***************************************************************************)
\* C27: the bounding box of a quad of any shape, on any edge vectors,
\* holds every point Quad::hit returns: every point q + alpha * u + beta * v
\* that the shape's containment test accepts.
C27_QuadBoxConservative ==
    (wKind = "quad" /\ IsSome(wRec)) =>
        \A c \in Axes : contains(wObj.bbox[c], wRec.p[c])

(***************************************************************************)
(* Properties of the wrappers and of HitRecord::new                        *)
(***************************************************************************)
\* The child's own hit on the ray moved back by the offset.
ChildOfTranslate ==
    Hit(wObj.object, Ray(VSub(wRay.orig, wObj.offset), wRay.dir, wRay.tm), wIv)

\* C13: Translate::new(obj, v).hit(r, I) returns a hit iff obj.hit(r', I)
\* does, where r' has origin r.origin - v and r's direction and time; the
\* point of the Translate result is the child's point plus v.
C13_TranslateRoundTrip ==
    wKind = "translate" =>
        /\ IsSome(wRec) <=> IsSome(ChildOfTranslate)
        /\ IsSome(wRec) => wRec.p = VAdd(ChildOfTranslate.p, wObj.offset)

\* A translated object was hit at a point its offset moved.
C13_Witness ==
    /\ wKind = "translate"
    /\ IsSome(wRec)
    /\ wRec.p # ChildOfTranslate.p

\* C15: every record built by HitRecord::new has front_face = (direction .
\* outward_normal < 0) and a normal with direction . normal <= 0; the
\* inequality also holds, for the ray given to the wrapper, for the records
\* Translate and RotateY return.
C15_NormalOpposesRay ==
    /\ (wKind = "quad" /\ IsSome(wRec)) =>
          /\ wRec.front_face = FLt(dot(wRay.dir, wObj.normal), 0)
          /\ FLe(dot(wRay.dir, wRec.normal), 0)
    /\ (wKind \in {"translate", "rotate_y"} /\ IsSome(wRec)) =>
          FLe(dot(wRay.dir, wRec.normal), 0)

\* The record the wrapped object itself returns for the ray RotateY::hit
\* hands it.
ChildOfRotateY ==
    Hit(wObj.object,
        Ray(transform(wObj, wRay.orig), transform(wObj, wRay.dir), wRay.tm), wIv)

\* The boundary's entry record: its first hit over the whole line.
EntryOfMedium == Hit(wObj.boundary, wRay, INTERVAL_UNIVERSE)

\* C16: Translate::hit returns the child's record with only p changed;
\* RotateY::hit changes only p and normal; ConstantMedium::hit changes only
\* t, p and mat of the boundary's entry record, mat being the medium's phase
\* function and p = r.at(t).
C16_WrappersChangeOnlyTheirFields ==
    /\ (wKind = "translate" /\ IsSome(wRec)) =>
          [wRec EXCEPT !.p = ChildOfTranslate.p] = ChildOfTranslate
    /\ (wKind = "rotate_y" /\ IsSome(wRec)) =>
          [wRec EXCEPT !.p = ChildOfRotateY.p, !.normal = ChildOfRotateY.normal]
              = ChildOfRotateY
    /\ (wKind = "medium" /\ IsSome(wRec)) =>
          /\ [wRec EXCEPT !.t = EntryOfMedium.t, !.p = EntryOfMedium.p,
                          !.mat = EntryOfMedium.mat] = EntryOfMedium
          /\ wRec.mat = wObj.phase_function
          /\ wRec.p = at(wRay, wRec.t)

\* A medium scattered the ray past the boundary's entry point.
C16_Witness ==
    /\ wKind = "medium"
    /\ IsSome(wRec)
    /\ wRec.t # EntryOfMedium.t
    /\ wRec.p # EntryOfMedium.p
    /\ wRec.mat # EntryOfMedium.mat

\* The boundary's exit record: its first hit from 0.0001 past the entry on.
ExitOfMedium ==
    Hit(wObj.boundary, wRay, Interval(FAdd(EntryOfMedium.t, delta), INFINITY))

\* The entry t clipped up to ray_t.min, the exit t clipped down to ray_t.max.
ClippedEntry == FMax(EntryOfMedium.t, wIv.min)

ClippedExit == FMin(ExitOfMedium.t, wIv.max)

\* The free path sampled: -(1 / density) * ln(random)
SampledDistance == FMul(wObj.neg_inv_density, wLn)

\* C25: ConstantMedium::hit returns no hit exactly when the boundary has no
\* entry hit over the universe interval, or no exit hit over
\* [entry.t + 0.0001, +inf), or the sampled distance exceeds (clipped exit t
\* - clipped entry t) * |direction|; otherwise it returns a hit at
\* t = clipped entry t + sampled distance / |direction|.
C25_MediumOutcomes ==
    wKind = "medium" =>
        /\ ~IsSome(wRec) <=>
              \/ ~IsSome(EntryOfMedium)
              \/ ~IsSome(ExitOfMedium)
              \/ FGt(SampledDistance,
                     FMul(FSub(ClippedExit, ClippedEntry), length(wRay.dir)))
        /\ IsSome(wRec) =>
              wRec.t = FAdd(ClippedEntry, FDiv(SampledDistance, length(wRay.dir)))

\* A ray that starts inside the boundary: the entry lies behind ray_t.min
\* and is clipped up to it, and the medium scatters the ray before the exit.
C25_Witness ==
    /\ wKind = "medium"
    /\ IsSome(wRec)
    /\ FLt(EntryOfMedium.t, wIv.min)
    /\ wRec.t = FAdd(wIv.min, SampledDistance)
    /\ FLt(wRec.t, ExitOfMedium.t)

(***************************************************************************)
(* Specifications: each part of the program runs from the common initial   *)
(* state, the other parts left untouched                                   *)
(***************************************************************************)
Init ==
    /\ InitAABB
    /\ InitScene
    /\ InitCameraDefault
    /\ InitPixelIdle
    /\ InitRenderIdle
    /\ InitSetupIdle
    /\ InitWrap

Spec == Init /\ [][NextScene]_vars

SpecBuild == Init /\ [][NextBuild]_vars

SpecSpan == Init /\ [][NextSpan]_vars

SpecUnion == Init /\ [][NextUnion]_vars

SpecAABB == Init /\ [][NextAABB]_vars

InitPixel ==
    /\ InitAABB
    /\ InitScene
    /\ InitCamera
    /\ InitPixelIdle
    /\ InitRenderIdle
    /\ InitSetupIdle
    /\ InitWrap

\* The program keeps running: a step that can be taken is taken.
SpecPixelFair == InitPixel /\ [][NextPixel]_vars /\ WF_vars(NextPixel)

SpecPixel == InitPixel /\ [][NextPixel]_vars

InitRender ==
    /\ InitAABB
    /\ InitScene
    /\ max_depth = 1
    /\ samples_per_pixel \in 1 .. MaxSamples
    /\ background \in Backgrounds
    /\ InitPixelIdle
    /\ InitRenderIdle
    /\ InitSetupIdle
    /\ InitWrap

SpecRender == InitRender /\ [][NextRender]_vars

InitCameraSetup ==
    /\ InitAABB
    /\ InitScene
    /\ InitCameraDefault
    /\ InitPixelIdle
    /\ InitRenderIdle
    /\ InitSetup
    /\ InitWrap

SpecSetup == InitCameraSetup /\ [][NextSetup]_vars

SpecWrap == Init /\ [][NextWrap]_vars

SpecSlab == Init /\ [][NextSlab]_vars

SpecHits == Init /\ [][NextHits]_vars

SpecShape == Init /\ [][NextShape]_vars

====
